---------------------------- MODULE Spec2Model ----------------------------
(***************************************************************************)
(* A model of td/telegram/OrderedMessage.cpp (the ordered message index, a *)
(* treap keyed by message id) and of td/telegram/Client.cpp (the client    *)
(* dispatch layer: ClientManager, MultiImplPool, MultiImpl, MultiTd and    *)
(* TdReceiver).                                                            *)
(***************************************************************************)
EXTENDS Integers, Sequences, FiniteSets, TLC

VARIABLES
  messages_,   \* OrderedMessages::messages_ : the root of the treap
  present,     \* history: the ids inserted and not erased since
  fatal,       \* "" while the process runs, else the check that aborted it
  call,        \* the last call made by the caller: <<name, what it was given or read...>>
  ret,         \* what the last call returned
  dates,       \* the caller's date of every message, behind get_message_date
  impls_,      \* ClientManager::Impl::impls_ : client id -> its MultiImpl
  pool_impls_, \* MultiImplPool::impls_ : slot -> the MultiImpl it refers to, 0 if none
  made,        \* history: the number of MultiImpls made so far
  current_id,  \* MultiImpl::create_id()::current_id
  mailbox,     \* per MultiImpl, the closures sent to its MultiTd and not yet run
  tds_,        \* per MultiImpl, the keys of MultiTd::tds_ that own a Td
  session,     \* per client id, the state of its Td
  inbox,       \* per client id, the requests sent to its Td and not yet answered
  writer_vector_,           \* the output queue, writers' side
  reader_vector_,           \* the output queue, reader's side
  output_queue_ready_cnt_,  \* TdReceiver::output_queue_ready_cnt_
  receive_lock_,            \* TdReceiver::receive_lock_
  receiving,                \* the threads inside TdReceiver::receive_unlocked
  phase,       \* the life of the ClientManager: "live", "destructing", "destroyed"
  sent,        \* history: the number of send calls made
  updates,     \* history: the number of updates the sessions emitted
  emitted,     \* history: every response put on the output queue, with who put it
  received     \* history: every response receive returned, the idle ones left out

varsIndex == <<messages_, present, fatal, call, ret, dates>>

varsTree == <<messages_, present, dates>>

varsClient == <<impls_, pool_impls_, made, current_id, mailbox, tds_, session,
                inbox, writer_vector_, reader_vector_, output_queue_ready_cnt_,
                receive_lock_, receiving, phase, sent, updates, emitted, received>>

vars == <<messages_, present, fatal, call, ret, dates, impls_, pool_impls_, made,
          current_id, mailbox, tds_, session, inbox, writer_vector_,
          reader_vector_, output_queue_ready_cnt_, receive_lock_, receiving, phase, sent,
          updates, emitted, received>>

(***************************************************************************)
(* Bounds.                                                                 *)
(***************************************************************************)
NumIds == 5

MaxDate == 3

\* The create_client calls and send calls made on one ClientManager and the
\* updates its sessions send unasked, taken together, and the slots of its
\* MultiImplPool.
MaxCalls == 3

NumSlots == 2

\* The threads that call receive on one ClientManager at the same time.
NumThreads == 2

\* The values of thread::hardware_concurrency() that are drawn.
MaxHardwareConcurrency == 1100

(***************************************************************************)
(* MessageId.  A message id is its 64-bit integer.  The ids the model      *)
(* draws are server ids k * 2^20 and, right after each, the id with the    *)
(* low type bits set to 1.  The default MessageId() is 0.                  *)
(***************************************************************************)
IdOf(i) == ((i + 1) \div 2) * 1048576 + (IF i % 2 = 0 THEN 1 ELSE 0)

MsgIds == {IdOf(i) : i \in 1..NumIds}

NoMessageId == 0

is_valid(message_id) == message_id > 0

is_yet_unsent(message_id) == message_id % 4 = 1

(***************************************************************************)
(* random_y of insert: int32(uint32(message_id * 2101234567u)).  The       *)
(* product is taken modulo 2^32 in 16-bit limbs, so that no intermediate   *)
(* value leaves the range of a 32-bit integer, and the result is read as   *)
(* a two's complement int32.                                               *)
(***************************************************************************)
RandomY(message_id) ==
  LET a0   == message_id % 65536
      a1   == (message_id \div 65536) % 65536
      k0   == 2101234567 % 65536
      k1   == 2101234567 \div 65536
      lo   == a0 * k0
      mid  == ((a1 * k0) % 65536) + ((a0 * k1) % 65536) + (lo \div 65536)
      hi16 == mid % 65536
      lo16 == lo % 65536
  IN  IF hi16 >= 32768 THEN (hi16 - 65536) * 65536 + lo16
                       ELSE hi16 * 65536 + lo16

(***************************************************************************)
(* OrderedMessage nodes.  A unique_ptr<OrderedMessage> is Nil or a node    *)
(* that owns its two children.                                             *)
(***************************************************************************)
Nil == [nil |-> TRUE]

OrderedMessage(message_id, random_y) ==
  [message_id |-> message_id, random_y |-> random_y, left |-> Nil, right |-> Nil,
   have_previous |-> FALSE, have_next |-> FALSE]

\* A unique_ptr<OrderedMessage> *v is the path of left/right links from the root.
RECURSIVE Deref(_, _)
Deref(t, v) ==
  IF v = <<>> THEN t
  ELSE IF Head(v) = "left" THEN Deref(t.left, Tail(v))
  ELSE Deref(t.right, Tail(v))

\* *v = std::move(sub)
RECURSIVE Assign(_, _, _)
Assign(t, v, sub) ==
  IF v = <<>> THEN sub
  ELSE IF Head(v) = "left" THEN [t EXCEPT !.left = Assign(t.left, Tail(v), sub)]
  ELSE [t EXCEPT !.right = Assign(t.right, Tail(v), sub)]

(***************************************************************************)
(* OrderedMessages::insert                                                 *)
(***************************************************************************)
\* A faulty descent: it stops at a node of equal random_y (> for >=).
RECURSIVE InsertDescentStrict(_, _, _)
InsertDescentStrict(t, message_id, random_y) ==
  IF t # Nil /\ t.random_y > random_y
  THEN IF t.message_id < message_id
       THEN LET d == InsertDescentStrict(t.right, message_id, random_y)
            IN  [d EXCEPT !.v = <<"right">> \o @]
       ELSE IF t.message_id = message_id
       THEN [unreachable |-> TRUE, v |-> <<>>]
       ELSE LET d == InsertDescentStrict(t.left, message_id, random_y)
            IN  [d EXCEPT !.v = <<"left">> \o @]
  ELSE [unreachable |-> FALSE, v |-> <<>>]

\* The descent: the place v where the new node goes, or UNREACHABLE.
RECURSIVE InsertDescent(_, _, _)
InsertDescent(t, message_id, random_y) ==
  IF t # Nil /\ t.random_y >= random_y
  THEN IF t.message_id < message_id
       THEN LET d == InsertDescent(t.right, message_id, random_y)
            IN  [d EXCEPT !.v = <<"right">> \o @]
       ELSE IF t.message_id = message_id
       THEN [unreachable |-> TRUE, v |-> <<>>]
       ELSE LET d == InsertDescent(t.left, message_id, random_y)
            IN  [d EXCEPT !.v = <<"left">> \o @]
  ELSE [unreachable |-> FALSE, v |-> <<>>]

\* A faulty split: a node put on the right spine keeps none of its left side.
RECURSIVE InsertSplitDropsLeft(_, _)
InsertSplitDropsLeft(cur, message_id) ==
  IF cur = Nil THEN [left |-> Nil, right |-> Nil]
  ELSE IF cur.message_id < message_id
  THEN LET s == InsertSplitDropsLeft(cur.right, message_id)
       IN  [left |-> [cur EXCEPT !.right = s.left], right |-> s.right]
  ELSE LET s == InsertSplitDropsLeft(cur.left, message_id)
       IN  [left |-> s.left, right |-> [cur EXCEPT !.left = Nil]]

\* The split of the displaced subtree cur by message_id into the new node's
\* left and right children.
RECURSIVE InsertSplit(_, _)
InsertSplit(cur, message_id) ==
  IF cur = Nil THEN [left |-> Nil, right |-> Nil]
  ELSE IF cur.message_id < message_id
  THEN LET s == InsertSplit(cur.right, message_id)
       IN  [left |-> [cur EXCEPT !.right = s.left], right |-> s.right]
  ELSE LET s == InsertSplit(cur.left, message_id)
       IN  [left |-> s.left, right |-> [cur EXCEPT !.left = s.right]]

insert(t, message_id) ==
  LET random_y == RandomY(message_id)
      d        == InsertDescent(t, message_id, random_y)
  IN  IF d.unreachable THEN [fatal |-> "UNREACHABLE", tree |-> t]
      ELSE LET s       == InsertSplit(Deref(t, d.v), message_id)
               message == [OrderedMessage(message_id, random_y)
                             EXCEPT !.left = s.left, !.right = s.right]
           IN  [fatal |-> "", tree |-> Assign(t, d.v, message)]

(***************************************************************************)
(* OrderedMessages::erase                                                  *)
(***************************************************************************)
RECURSIVE EraseDescent(_, _)
EraseDescent(t, message_id) ==
  IF t # Nil
  THEN IF t.message_id < message_id
       THEN <<"right">> \o EraseDescent(t.right, message_id)
       ELSE IF t.message_id > message_id
       THEN <<"left">> \o EraseDescent(t.left, message_id)
       ELSE <<>>
  ELSE <<>>

\* A faulty meld: the child of the lesser random_y comes on top (< for >).
RECURSIVE EraseMeldLesserOnTop(_, _)
EraseMeldLesserOnTop(left, right) ==
  IF left # Nil \/ right # Nil
  THEN IF left = Nil \/ (right # Nil /\ right.random_y < left.random_y)
       THEN [right EXCEPT !.left = EraseMeldLesserOnTop(left, right.left)]
       ELSE [left EXCEPT !.right = EraseMeldLesserOnTop(left.right, right)]
  ELSE Nil

\* The meld of the erased node's children.
RECURSIVE EraseMeld(_, _)
EraseMeld(left, right) ==
  IF left # Nil \/ right # Nil
  THEN IF left = Nil \/ (right # Nil /\ right.random_y > left.random_y)
       THEN [right EXCEPT !.left = EraseMeld(left, right.left)]
       ELSE [left EXCEPT !.right = EraseMeld(left.right, right)]
  ELSE Nil

erase(t, message_id) ==
  LET v      == EraseDescent(t, message_id)
      result == Deref(t, v)
  IN  IF result = Nil THEN [fatal |-> "CHECK(result != nullptr)", tree |-> t]
      ELSE [fatal |-> "", tree |-> Assign(t, v, EraseMeld(result.left, result.right))]

(***************************************************************************)
(* OrderedMessages::Iterator and get_iterator (OrderedMessage.h).  An      *)
(* iterator is the id of the node it stands at, NoMessageId when it        *)
(* stands at no node.  get_iterator(message_id) stands at the node with    *)
(* the greatest id <= message_id; -- and ++ step to the in-order           *)
(* predecessor and successor.                                              *)
(***************************************************************************)
RECURSIVE get_iterator(_, _)
get_iterator(t, message_id) ==
  IF t = Nil THEN NoMessageId
  ELSE IF t.message_id <= message_id
  THEN LET r == get_iterator(t.right, message_id)
       IN  IF r # NoMessageId THEN r ELSE t.message_id
  ELSE get_iterator(t.left, message_id)

RECURSIVE IteratorDecrement(_, _)
IteratorDecrement(t, it) ==
  IF t = Nil \/ it = NoMessageId THEN NoMessageId
  ELSE IF t.message_id < it
  THEN LET r == IteratorDecrement(t.right, it)
       IN  IF r # NoMessageId THEN r ELSE t.message_id
  ELSE IteratorDecrement(t.left, it)

RECURSIVE IteratorIncrement(_, _)
IteratorIncrement(t, it) ==
  IF t = Nil \/ it = NoMessageId THEN NoMessageId
  ELSE IF t.message_id > it
  THEN LET l == IteratorIncrement(t.left, it)
       IN  IF l # NoMessageId THEN l ELSE t.message_id
  ELSE IteratorIncrement(t.right, it)

\* The node *it of an iterator that stands at a node, as the place it hangs at.
RECURSIVE IteratorNode(_, _)
IteratorNode(t, it) ==
  IF t = Nil \/ t.message_id = it THEN <<>>
  ELSE IF t.message_id < it THEN <<"right">> \o IteratorNode(t.right, it)
  ELSE <<"left">> \o IteratorNode(t.left, it)

set_have_previous(t, it) ==
  LET v == IteratorNode(t, it)
  IN  Assign(t, v, [Deref(t, v) EXCEPT !.have_previous = TRUE])

set_have_next(t, it) ==
  LET v == IteratorNode(t, it)
  IN  Assign(t, v, [Deref(t, v) EXCEPT !.have_next = TRUE])

(***************************************************************************)
(* OrderedMessages::attach_message_to_previous / attach_message_to_next    *)
(***************************************************************************)
\* A faulty attach: it never sets have_next on the predecessor.
AttachToPreviousSkipsPredecessor(t, message_id) ==
  IF ~is_valid(message_id)
  THEN [fatal |-> "CHECK(message_id.is_valid())", tree |-> t]
  ELSE
  LET it == get_iterator(t, message_id)
  IN  IF it = NoMessageId
      THEN [fatal |-> "CHECK(ordered_message != nullptr)", tree |-> t]
      ELSE IF it # message_id
      THEN [fatal |-> "CHECK(ordered_message->message_id == message_id)", tree |-> t]
      ELSE IF Deref(t, IteratorNode(t, it)).have_previous
      THEN [fatal |-> "", tree |-> t]
      ELSE LET t1   == set_have_previous(t, it)
               prev == IteratorDecrement(t1, it)
           IN  IF prev = NoMessageId
               THEN [fatal |-> "LOG_CHECK(*it != nullptr)", tree |-> t1]
               ELSE [fatal |-> "", tree |-> set_have_next(t1, it)]

\* A faulty attach: it sets have_next on the node and on its predecessor.
AttachToPreviousSetsBoth(t, message_id) ==
  IF ~is_valid(message_id)
  THEN [fatal |-> "CHECK(message_id.is_valid())", tree |-> t]
  ELSE
  LET it == get_iterator(t, message_id)
  IN  IF it = NoMessageId
      THEN [fatal |-> "CHECK(ordered_message != nullptr)", tree |-> t]
      ELSE IF it # message_id
      THEN [fatal |-> "CHECK(ordered_message->message_id == message_id)", tree |-> t]
      ELSE IF Deref(t, IteratorNode(t, it)).have_previous
      THEN [fatal |-> "", tree |-> t]
      ELSE LET t1   == set_have_previous(t, it)
               prev == IteratorDecrement(t1, it)
           IN  IF prev = NoMessageId
               THEN [fatal |-> "LOG_CHECK(*it != nullptr)", tree |-> t1]
               ELSE [fatal |-> "", tree |-> set_have_next(set_have_next(t1, prev), it)]

attach_message_to_previous(t, message_id) ==
  IF ~is_valid(message_id)
  THEN [fatal |-> "CHECK(message_id.is_valid())", tree |-> t]
  ELSE
  LET it == get_iterator(t, message_id)
  IN  IF it = NoMessageId
      THEN [fatal |-> "CHECK(ordered_message != nullptr)", tree |-> t]
      ELSE IF it # message_id
      THEN [fatal |-> "CHECK(ordered_message->message_id == message_id)", tree |-> t]
      ELSE IF Deref(t, IteratorNode(t, it)).have_previous
      THEN [fatal |-> "", tree |-> t]
      ELSE LET t1   == set_have_previous(t, it)
               prev == IteratorDecrement(t1, it)
           IN  IF prev = NoMessageId
               THEN [fatal |-> "LOG_CHECK(*it != nullptr)", tree |-> t1]
               ELSE IF Deref(t1, IteratorNode(t1, prev)).have_next
               THEN [fatal |-> "", tree |-> set_have_next(t1, it)]
               ELSE [fatal |-> "", tree |-> set_have_next(t1, prev)]

attach_message_to_next(t, message_id) ==
  IF ~is_valid(message_id)
  THEN [fatal |-> "CHECK(message_id.is_valid())", tree |-> t]
  ELSE
  LET it == get_iterator(t, message_id)
  IN  IF it = NoMessageId
      THEN [fatal |-> "CHECK(ordered_message != nullptr)", tree |-> t]
      ELSE IF it # message_id
      THEN [fatal |-> "CHECK(ordered_message->message_id == message_id)", tree |-> t]
      ELSE IF Deref(t, IteratorNode(t, it)).have_next
      THEN [fatal |-> "", tree |-> t]
      ELSE LET t1   == set_have_next(t, it)
               next == IteratorIncrement(t1, it)
           IN  IF next = NoMessageId
               THEN [fatal |-> "LOG_CHECK(*it != nullptr)", tree |-> t1]
               ELSE IF Deref(t1, IteratorNode(t1, next)).have_previous
               THEN [fatal |-> "", tree |-> set_have_previous(t1, it)]
               ELSE [fatal |-> "", tree |-> set_have_previous(t1, next)]

(***************************************************************************)
(* OrderedMessages::auto_attach_message                                    *)
(***************************************************************************)
AttachInfo(have_previous, have_next) ==
  [have_previous |-> have_previous, have_next |-> have_next]

\* The loop of the successor branch: the node with the least id >= message_id.
RECURSIVE AutoAttachNext(_, _, _)
AutoAttachNext(cur, message_id, next_message) ==
  IF cur # Nil
  THEN IF cur.message_id < message_id
       THEN AutoAttachNext(cur.right, message_id, next_message)
       ELSE AutoAttachNext(cur.left, message_id, cur)
  ELSE next_message

\* A faulty successor branch: it sets have_previous on the successor.
AutoAttachToNextSetsFlag(t, message_id) ==
  LET next_message == AutoAttachNext(t, message_id, Nil)
  IN  IF ~is_yet_unsent(message_id) /\ next_message # Nil
      THEN IF next_message.have_previous
           THEN [fatal |-> "CHECK(!next_message->have_previous)", tree |-> t,
                 ret |-> AttachInfo(FALSE, FALSE)]
           ELSE [fatal |-> "", tree |-> set_have_previous(t, next_message.message_id),
                 ret |-> AttachInfo(next_message.have_previous, TRUE)]
      ELSE [fatal |-> "", tree |-> t, ret |-> AttachInfo(FALSE, FALSE)]

\* The part after the predecessor branch fell through.
AutoAttachToNext(t, message_id) ==
  LET next_message == AutoAttachNext(t, message_id, Nil)
  IN  IF ~is_yet_unsent(message_id) /\ next_message # Nil
      THEN IF next_message.have_previous
           THEN [fatal |-> "CHECK(!next_message->have_previous)", tree |-> t,
                 ret |-> AttachInfo(FALSE, FALSE)]
           ELSE [fatal |-> "", tree |-> t,
                 ret |-> AttachInfo(next_message.have_previous, TRUE)]
      ELSE [fatal |-> "", tree |-> t, ret |-> AttachInfo(FALSE, FALSE)]

\* A faulty auto-attach: it reads have_next after having set it.
AutoAttachReadsAfterSet(t, message_id, last_message_id) ==
  LET it == get_iterator(t, message_id)
  IN  IF it # NoMessageId
      THEN LET previous_message == Deref(t, IteratorNode(t, it))
               previous_message_id == previous_message.message_id
           IN  IF ~(previous_message_id < message_id)
               THEN [fatal |-> "CHECK(previous_message_id < message_id)", tree |-> t,
                     ret |-> AttachInfo(FALSE, FALSE)]
               ELSE IF previous_message.have_next
                       \/ (is_valid(last_message_id)
                           /\ previous_message_id >= last_message_id)
               THEN [fatal |-> "", tree |-> set_have_next(t, it),
                     ret |-> AttachInfo(TRUE, TRUE)]
               ELSE AutoAttachToNext(t, message_id)
      ELSE AutoAttachToNext(t, message_id)

auto_attach_message(t, message_id, last_message_id) ==
  LET it == get_iterator(t, message_id)
  IN  IF it # NoMessageId
      THEN LET previous_message == Deref(t, IteratorNode(t, it))
               previous_message_id == previous_message.message_id
           IN  IF ~(previous_message_id < message_id)
               THEN [fatal |-> "CHECK(previous_message_id < message_id)", tree |-> t,
                     ret |-> AttachInfo(FALSE, FALSE)]
               ELSE IF previous_message.have_next
                       \/ (is_valid(last_message_id)
                           /\ previous_message_id >= last_message_id)
               THEN [fatal |-> "", tree |-> set_have_next(t, it),
                     ret |-> AttachInfo(TRUE, previous_message.have_next)]
               ELSE AutoAttachToNext(t, message_id)
      ELSE AutoAttachToNext(t, message_id)

(***************************************************************************)
(* The range and date queries.  get_message_date is a function from ids    *)
(* to dates.                                                               *)
(***************************************************************************)
RECURSIVE do_find_older_messages(_, _)
do_find_older_messages(ordered_message, max_message_id) ==
  IF ordered_message = Nil THEN <<>>
  ELSE do_find_older_messages(ordered_message.left, max_message_id)
       \o (IF ordered_message.message_id <= max_message_id
           THEN <<ordered_message.message_id>>
                \o do_find_older_messages(ordered_message.right, max_message_id)
           ELSE <<>>)

find_older_messages(t, max_message_id) == do_find_older_messages(t, max_message_id)

\* A faulty range query: it takes the id min_message_id itself (>= for >).
RECURSIVE FindNewerInclusive(_, _)
FindNewerInclusive(ordered_message, min_message_id) ==
  IF ordered_message = Nil THEN <<>>
  ELSE (IF ordered_message.message_id >= min_message_id
        THEN FindNewerInclusive(ordered_message.left, min_message_id)
             \o <<ordered_message.message_id>>
        ELSE <<>>)
       \o FindNewerInclusive(ordered_message.right, min_message_id)

RECURSIVE do_find_newer_messages(_, _)
do_find_newer_messages(ordered_message, min_message_id) ==
  IF ordered_message = Nil THEN <<>>
  ELSE (IF ordered_message.message_id > min_message_id
        THEN do_find_newer_messages(ordered_message.left, min_message_id)
             \o <<ordered_message.message_id>>
        ELSE <<>>)
       \o do_find_newer_messages(ordered_message.right, min_message_id)

find_newer_messages(t, min_message_id) == do_find_newer_messages(t, min_message_id)

\* A faulty date lookup: it skips a message of exactly the date (>= for >).
RECURSIVE FindMessageByDateStrict(_, _, _)
FindMessageByDateStrict(ordered_message, date, get_message_date) ==
  IF ordered_message = Nil THEN NoMessageId
  ELSE IF get_message_date[ordered_message.message_id] >= date
  THEN FindMessageByDateStrict(ordered_message.left, date, get_message_date)
  ELSE LET message_id ==
             FindMessageByDateStrict(ordered_message.right, date, get_message_date)
       IN  IF is_valid(message_id) THEN message_id ELSE ordered_message.message_id

\* A faulty date lookup: it never looks right of a message of a date <= date.
RECURSIVE FindMessageByDateStopsAtNode(_, _, _)
FindMessageByDateStopsAtNode(ordered_message, date, get_message_date) ==
  IF ordered_message = Nil THEN NoMessageId
  ELSE IF get_message_date[ordered_message.message_id] > date
  THEN FindMessageByDateStopsAtNode(ordered_message.left, date, get_message_date)
  ELSE ordered_message.message_id

RECURSIVE do_find_message_by_date(_, _, _)
do_find_message_by_date(ordered_message, date, get_message_date) ==
  IF ordered_message = Nil THEN NoMessageId
  ELSE IF get_message_date[ordered_message.message_id] > date
  THEN do_find_message_by_date(ordered_message.left, date, get_message_date)
  ELSE LET message_id ==
             do_find_message_by_date(ordered_message.right, date, get_message_date)
       IN  IF is_valid(message_id) THEN message_id ELSE ordered_message.message_id

find_message_by_date(t, date, get_message_date) ==
  do_find_message_by_date(t, date, get_message_date)

\* A faulty date range query: it never looks left of a node it takes.
RECURSIVE FindMessagesByDateSkipsLeft(_, _, _, _)
FindMessagesByDateSkipsLeft(ordered_message, min_date, max_date, get_message_date) ==
  IF ordered_message = Nil THEN <<>>
  ELSE LET message_date == get_message_date[ordered_message.message_id]
       IN  (IF message_date > min_date
            THEN FindMessagesByDateSkipsLeft(ordered_message.left, min_date, max_date,
                                             get_message_date)
            ELSE <<>>)
           \o (IF message_date >= min_date /\ message_date <= max_date
               THEN <<ordered_message.message_id>> ELSE <<>>)
           \o (IF message_date <= max_date
               THEN FindMessagesByDateSkipsLeft(ordered_message.right, min_date, max_date,
                                                get_message_date)
               ELSE <<>>)

RECURSIVE do_find_messages_by_date(_, _, _, _)
do_find_messages_by_date(ordered_message, min_date, max_date, get_message_date) ==
  IF ordered_message = Nil THEN <<>>
  ELSE LET message_date == get_message_date[ordered_message.message_id]
       IN  (IF message_date >= min_date
            THEN do_find_messages_by_date(ordered_message.left, min_date, max_date,
                                          get_message_date)
                 \o (IF message_date <= max_date
                     THEN <<ordered_message.message_id>> ELSE <<>>)
            ELSE <<>>)
           \o (IF message_date <= max_date
               THEN do_find_messages_by_date(ordered_message.right, min_date, max_date,
                                             get_message_date)
               ELSE <<>>)

find_messages_by_date(t, min_date, max_date, get_message_date) ==
  do_find_messages_by_date(t, min_date, max_date, get_message_date)

(***************************************************************************)
(* Client.cpp.  A ClientManager::Response is {client_id, request_id,       *)
(* object}; the object is "nullptr", a result "object", an "update", an    *)
(* "error" of the session, or the error 400 that send makes itself.        *)
(***************************************************************************)
ClientIds == 1..MaxCalls

Slots == 1..NumSlots

\* The MultiImpls made are numbered 1, 2, ...; there is at most one per client.
MultiImpls == 1..MaxCalls

Threads == 1..NumThreads

Error400 == "error 400: Invalid TDLib instance specified"

Response(client_id, request_id, object) ==
  [client_id |-> client_id, request_id |-> request_id, object |-> object]

\* What a call that returns void returns.
Void == [void |-> TRUE]

\* What receive_unlocked returns when there is nothing to return.
NoResponse == Response(0, 0, "nullptr")

\* std::unordered_map: operator[]= and erase.
MapSet(map, key, value) ==
  [k \in (DOMAIN map) \cup {key} |-> IF k = key THEN value ELSE map[k]]

MapErase(map, key) == [k \in (DOMAIN map) \ {key} |-> map[k]]

\* MpscPollableQueue::writer_put, with the history of what was put by whom.
writer_put(queue, response) == Append(queue, response)

\* The history of the puts of one step: what the step added to the writers' side.
Log(log, before, after, by) ==
  log \o [i \in 1..(Len(after) - Len(before)) |->
            [response |-> after[Len(before) + i], by |-> by]]

\* A ClientManager right after its construction: no client, no worker.  Its
\* pool has NumSlots slots, where get gives an empty pool PoolSize slots.
NewClientManager ==
  /\ impls_ = <<>>
  /\ pool_impls_ = [slot \in Slots |-> 0]
  /\ made = 0
  /\ current_id = 1
  /\ mailbox = [multi_impl \in MultiImpls |-> <<>>]
  /\ tds_ = [multi_impl \in MultiImpls |-> {}]
  /\ session = [client_id \in ClientIds |-> "none"]
  /\ inbox = [client_id \in ClientIds |-> <<>>]
  /\ writer_vector_ = <<>>
  /\ reader_vector_ = <<>>
  /\ output_queue_ready_cnt_ = 0
  /\ receive_lock_ = FALSE
  /\ receiving = {}
  /\ phase = "live"
  /\ sent = 0
  /\ updates = 0
  /\ emitted = <<>>
  /\ received = <<>>

(***************************************************************************)
(* The calls on one OrderedMessages container.  The container is used by   *)
(* one thread; a failed CHECK ends the process, after which nothing runs.  *)
(***************************************************************************)
\* The arguments a caller may pass: the ids of the model, one below and one above.
QueryIds == {IdOf(i) : i \in 0..(NumIds + 1)}

Dates == 1..MaxDate

\* get_message_date functions that are non-decreasing in the message id.
MonotoneDates ==
  {f \in [MsgIds -> Dates] : \A a, b \in MsgIds : a <= b => f[a] <= f[b]}

InitIndex ==
  /\ messages_ = Nil
  /\ present = {}
  /\ fatal = ""
  /\ call = <<"new">>
  /\ ret = NoMessageId
  /\ dates = [message_id \in MsgIds |-> 1]
  /\ NewClientManager

\* The same container, with any dates that do not decrease with the message id.
InitQuery ==
  /\ messages_ = Nil
  /\ present = {}
  /\ fatal = ""
  /\ call = <<"new">>
  /\ ret = NoMessageId
  /\ dates \in MonotoneDates
  /\ NewClientManager

Insert(message_id) ==
  /\ fatal = ""
  /\ LET r == insert(messages_, message_id)
     IN  /\ messages_' = r.tree
         /\ fatal' = r.fatal
         /\ present' = IF r.fatal = "" THEN present \cup {message_id} ELSE present
  /\ call' = <<"insert", message_id>>
  /\ ret' = message_id
  /\ UNCHANGED dates
  /\ UNCHANGED varsClient

Erase(message_id) ==
  /\ fatal = ""
  /\ LET r == erase(messages_, message_id)
     IN  /\ messages_' = r.tree
         /\ fatal' = r.fatal
         /\ present' = IF r.fatal = "" THEN present \ {message_id} ELSE present
  /\ call' = <<"erase", message_id>>
  /\ ret' = NoMessageId
  /\ UNCHANGED dates
  /\ UNCHANGED varsClient

AttachMessageToPrevious(message_id) ==
  /\ fatal = ""
  /\ LET r == attach_message_to_previous(messages_, message_id)
     IN  /\ messages_' = r.tree
         /\ fatal' = r.fatal
  /\ call' = <<"attach_message_to_previous", message_id>>
  /\ ret' = NoMessageId
  /\ UNCHANGED <<present, dates>>
  /\ UNCHANGED varsClient

AttachMessageToNext(message_id) ==
  /\ fatal = ""
  /\ LET r == attach_message_to_next(messages_, message_id)
     IN  /\ messages_' = r.tree
         /\ fatal' = r.fatal
  /\ call' = <<"attach_message_to_next", message_id>>
  /\ ret' = NoMessageId
  /\ UNCHANGED <<present, dates>>
  /\ UNCHANGED varsClient

AutoAttachMessage(message_id, last_message_id) ==
  /\ fatal = ""
  /\ LET r == auto_attach_message(messages_, message_id, last_message_id)
     IN  /\ messages_' = r.tree
         /\ fatal' = r.fatal
         /\ ret' = r.ret
  /\ call' = <<"auto_attach_message", message_id, last_message_id>>
  /\ UNCHANGED <<present, dates>>
  /\ UNCHANGED varsClient

FindOlderMessages(max_message_id) ==
  /\ fatal = ""
  /\ ret' = find_older_messages(messages_, max_message_id)
  /\ call' = <<"find_older_messages", max_message_id>>
  /\ UNCHANGED <<messages_, present, fatal, dates>>
  /\ UNCHANGED varsClient

FindNewerMessages(min_message_id) ==
  /\ fatal = ""
  /\ ret' = find_newer_messages(messages_, min_message_id)
  /\ call' = <<"find_newer_messages", min_message_id>>
  /\ UNCHANGED <<messages_, present, fatal, dates>>
  /\ UNCHANGED varsClient

FindMessageByDate(date) ==
  /\ fatal = ""
  /\ ret' = find_message_by_date(messages_, date, dates)
  /\ call' = <<"find_message_by_date", date>>
  /\ UNCHANGED <<messages_, present, fatal, dates>>
  /\ UNCHANGED varsClient

FindMessagesByDate(min_date, max_date) ==
  /\ fatal = ""
  /\ ret' = find_messages_by_date(messages_, min_date, max_date, dates)
  /\ call' = <<"find_messages_by_date", min_date, max_date>>
  /\ UNCHANGED <<messages_, present, fatal, dates>>
  /\ UNCHANGED varsClient

\* The index with its adjacency operations.
NextIndex ==
  \/ \E message_id \in MsgIds : Insert(message_id)
  \/ \E message_id \in MsgIds : Erase(message_id)
  \/ \E message_id \in MsgIds : AttachMessageToPrevious(message_id)
  \/ \E message_id \in MsgIds : AttachMessageToNext(message_id)
  \/ \E message_id \in MsgIds, last_message_id \in MsgIds \cup {NoMessageId} :
       AutoAttachMessage(message_id, last_message_id)

SpecIndex == InitIndex /\ [][NextIndex]_vars

\* The index with the date lookup, where get_message_date is any function
\* of the present messages: a message gets its date when it is inserted.
\* get_message_date is asked about present messages only; the date of an
\* absent message is kept at 1.
InitDates ==
  /\ messages_ = Nil
  /\ present = {}
  /\ fatal = ""
  /\ call = <<"new">>
  /\ ret = NoMessageId
  /\ dates = [message_id \in MsgIds |-> 1]
  /\ NewClientManager

InsertDated(message_id, date) ==
  /\ fatal = ""
  /\ LET r == insert(messages_, message_id)
     IN  /\ messages_' = r.tree
         /\ fatal' = r.fatal
         /\ present' = IF r.fatal = "" THEN present \cup {message_id} ELSE present
         /\ dates' = IF r.fatal = "" THEN [dates EXCEPT ![message_id] = date] ELSE dates
  /\ call' = <<"insert", message_id>>
  /\ ret' = message_id
  /\ UNCHANGED varsClient

EraseDated(message_id) ==
  /\ fatal = ""
  /\ LET r == erase(messages_, message_id)
     IN  /\ messages_' = r.tree
         /\ fatal' = r.fatal
         /\ present' = IF r.fatal = "" THEN present \ {message_id} ELSE present
         /\ dates' = IF r.fatal = "" THEN [dates EXCEPT ![message_id] = 1] ELSE dates
  /\ call' = <<"erase", message_id>>
  /\ ret' = NoMessageId
  /\ UNCHANGED varsClient

NextDates ==
  \/ \E message_id \in MsgIds, date \in Dates : InsertDated(message_id, date)
  \/ \E message_id \in MsgIds : EraseDated(message_id)
  \/ \E date \in 0..(MaxDate + 1) : FindMessageByDate(date)

SpecDates == InitDates /\ [][NextDates]_vars

\* The index with its queries.
NextQuery ==
  \/ \E message_id \in MsgIds : Insert(message_id)
  \/ \E message_id \in MsgIds : Erase(message_id)
  \/ \E max_message_id \in QueryIds : FindOlderMessages(max_message_id)
  \/ \E min_message_id \in QueryIds : FindNewerMessages(min_message_id)
  \/ \E date \in 0..(MaxDate + 1) : FindMessageByDate(date)
  \/ \E min_date \in 0..(MaxDate + 1), max_date \in 0..(MaxDate + 1) :
       FindMessagesByDate(min_date, max_date)

SpecQuery == InitQuery /\ [][NextQuery]_vars

(***************************************************************************)
(* MultiImplPool.  A slot is a weak_ptr to a MultiImpl; a MultiImpl lives  *)
(* while some binding holds it.  lock().use_count() is 0 for an empty or   *)
(* expired slot, else the holders and the temporary that lock() made.      *)
(***************************************************************************)
Holders(map, multi_impl) ==
  Cardinality({client_id \in DOMAIN map : map[client_id] = multi_impl})

use_count(map, pool, slot) ==
  IF pool[slot] = 0 \/ Holders(map, pool[slot]) = 0 THEN 0
  ELSE Holders(map, pool[slot]) + 1

\* A faulty choice: the first slot that no slot is greater than.
MaxElement(map, pool) ==
  CHOOSE slot \in DOMAIN pool :
    \A other \in DOMAIN pool :
      \/ use_count(map, pool, other) < use_count(map, pool, slot)
      \/ use_count(map, pool, other) = use_count(map, pool, slot) /\ slot <= other

\* std::min_element: the first slot that no slot is less than.
MinElement(map, pool) ==
  CHOOSE slot \in DOMAIN pool :
    \A other \in DOMAIN pool :
      \/ use_count(map, pool, slot) < use_count(map, pool, other)
      \/ use_count(map, pool, slot) = use_count(map, pool, other) /\ slot <= other

clamp(value, min_value, max_value) ==
  IF value < min_value THEN min_value
  ELSE IF value > max_value THEN max_value ELSE value

\* The size an empty pool is given: unsigned arithmetic, no product above 5000.
PoolSizeClampedLast(hardware_concurrency) ==
  clamp((hardware_concurrency * 5) \div 4, 8, 1000)

PoolSize(hardware_concurrency) ==
  (clamp(hardware_concurrency, 8, 1000) * 5) \div 4

PoolGetAlwaysMakes(map, pool, count, hardware_concurrency) ==
  LET sized == IF pool = <<>>
               THEN [slot \in 1..PoolSize(hardware_concurrency) |-> 0] ELSE pool
      slot  == MinElement(map, sized)
  IN  [res |-> count + 1, pool |-> [sized EXCEPT ![slot] = count + 1],
       made |-> count + 1]

\* The MultiImpl returned, the pool and the number of MultiImpls made afterwards.
MultiImplPool_get(map, pool, count, hardware_concurrency) ==
  LET sized   == IF pool = <<>>
                 THEN [slot \in 1..PoolSize(hardware_concurrency) |-> 0] ELSE pool
      slot    == MinElement(map, sized)
      expired == use_count(map, sized, slot) = 0
      res     == IF expired THEN count + 1 ELSE sized[slot]
  IN  [res |-> res, pool |-> [sized EXCEPT ![slot] = res],
       made |-> IF expired THEN count + 1 ELSE count]

(***************************************************************************)
(* The closures MultiImpl sends to its MultiTd, and MultiTd running them.  *)
(***************************************************************************)
Closure(op, td_id, request_id, function) ==
  [op |-> op, id |-> td_id, request_id |-> request_id, function |-> function]

\* A create that sends nothing to the MultiTd.
MultiImplCreateDropped(box, td_id) == box

MultiImpl_create(box, td_id) == Append(box, Closure("create", td_id, 0, ""))

MultiImplSendFirst(box, client_id, request_id, function) ==
  <<Closure("send", client_id, request_id, function)>> \o box

MultiImpl_send(box, client_id, request_id, function) ==
  Append(box, Closure("send", client_id, request_id, function))

MultiImpl_close(box, client_id) == Append(box, Closure("close", client_id, 0, ""))

\* Each returns the keys of tds_ that own a Td afterwards, and the CHECK that failed.
MultiTd_create(tds, td_id) ==
  IF td_id \in tds THEN [fatal |-> "CHECK(td.empty())", tds |-> tds]
  ELSE [fatal |-> "", tds |-> tds \cup {td_id}]

MultiTd_send(tds, client_id) ==
  IF client_id \notin tds THEN [fatal |-> "CHECK(!td.empty())", tds |-> tds]
  ELSE [fatal |-> "", tds |-> tds]

MultiTd_close(tds, td_id) == [fatal |-> "", tds |-> tds \ {td_id}]

(***************************************************************************)
(* Td, the session behind a callback.  It is created open; a close         *)
(* request or the loss of its ActorOwn makes it close; closing, it still   *)
(* answers what it was sent, with errors, and then destroys its callback.  *)
(* A closure sent to a Td that has stopped is dropped.                     *)
(***************************************************************************)
Functions == {"function", "close"}

Hangup(state) == IF state = "open" THEN "closing" ELSE state

Td_request(state, requests, request_id, function) ==
  IF state \in {"open", "closing"}
  THEN Append(requests, [request_id |-> request_id, function |-> function])
  ELSE requests

(***************************************************************************)
(* TdReceiver: the callback it hands to a Td, add_response and receive.    *)
(***************************************************************************)
on_result(queue, client_id, id, result) ==
  writer_put(queue, Response(client_id, id, result))

on_error(queue, client_id, id, error) ==
  writer_put(queue, Response(client_id, id, error))

CallbackDestructorPutsNothing(queue, client_id) == queue

CallbackDestructor(queue, client_id) ==
  writer_put(queue, Response(client_id, 0, "nullptr"))

AddResponseWithoutClient(queue, client_id, id, result) ==
  writer_put(queue, Response(0, id, result))

add_response(queue, client_id, id, result) ==
  writer_put(queue, Response(client_id, id, result))

\* A faulty exchange: it reads the lock as free whatever it holds.
ExchangeReadsFree(lock, value) == [old |-> FALSE, new |-> value]

\* std::atomic<bool>::exchange: the value read and the value held afterwards.
exchange(lock, value) == [old |-> lock, new |-> value]

\* MpscPollableQueue::reader_wait_nonblock: what is left on the reader's
\* side, else everything the writers put, moved to the reader's side.
reader_wait_nonblock(writer, reader) ==
  IF reader # <<>>
  THEN [ready |-> Len(reader), writer |-> writer, reader |-> reader]
  ELSE [ready |-> Len(writer), writer |-> <<>>, reader |-> writer]

ReceiveUnlockedWithoutPoll(cnt, writer, reader) ==
  IF cnt > 0
  THEN [cnt |-> cnt - 1, writer |-> writer, reader |-> Tail(reader),
        response |-> Head(reader)]
  ELSE [cnt |-> cnt, writer |-> writer, reader |-> reader, response |-> NoResponse]

ReceiveUnlockedNewestFirst(cnt, writer, reader) ==
  LET polled == IF cnt = 0 THEN reader_wait_nonblock(writer, reader)
                ELSE [ready |-> cnt, writer |-> writer, reader |-> reader]
  IN  IF polled.ready > 0
      THEN [cnt |-> polled.ready - 1, writer |-> polled.writer,
            reader |-> SubSeq(polled.reader, 1, Len(polled.reader) - 1),
            response |-> polled.reader[Len(polled.reader)]]
      ELSE [cnt |-> polled.ready, writer |-> polled.writer,
            reader |-> polled.reader, response |-> NoResponse]

\* A faulty receive: it leaves the response it returns on the queue.
ReceiveUnlockedLeavesResponse(cnt, writer, reader) ==
  LET polled == IF cnt = 0 THEN reader_wait_nonblock(writer, reader)
                ELSE [ready |-> cnt, writer |-> writer, reader |-> reader]
  IN  IF polled.ready > 0
      THEN [cnt |-> polled.ready - 1, writer |-> polled.writer,
            reader |-> polled.reader, response |-> Head(polled.reader)]
      ELSE [cnt |-> polled.ready, writer |-> polled.writer,
            reader |-> polled.reader, response |-> NoResponse]

\* receive_unlocked(0).  With a timeout it waits and then runs this once
\* more, which is this poll made later.
receive_unlocked(cnt, writer, reader) ==
  LET polled == IF cnt = 0 THEN reader_wait_nonblock(writer, reader)
                ELSE [ready |-> cnt, writer |-> writer, reader |-> reader]
  IN  IF polled.ready > 0
      THEN [cnt |-> polled.ready - 1, writer |-> polled.writer,
            reader |-> Tail(polled.reader), response |-> Head(polled.reader)]
      ELSE [cnt |-> polled.ready, writer |-> polled.writer,
            reader |-> polled.reader, response |-> NoResponse]

(***************************************************************************)
(* ClientManager::Impl.                                                    *)
(***************************************************************************)
\* impls_.find(client_id): the multi_impl found, if any.
find(map, client_id) ==
  IF client_id \in DOMAIN map THEN {map[client_id]} ELSE {}

\* A faulty test: it takes an update of a client for its sentinel.
IsSentinelAnyObject(response) ==
  response.client_id # 0 /\ response.request_id = 0

\* The test receive makes before it erases the binding.
IsSentinel(response) ==
  response.object = "nullptr" /\ response.client_id # 0 /\ response.request_id = 0

\* ~Impl: close on the MultiImpl of every binding.
RECURSIVE CloseAll(_, _, _)
CloseAll(boxes, map, client_ids) ==
  IF client_ids = {} THEN boxes
  ELSE LET client_id == CHOOSE c \in client_ids : \A d \in client_ids : c <= d
       IN  CloseAll([boxes EXCEPT ![map[client_id]] = MultiImpl_close(@, client_id)],
                    map, client_ids \ {client_id})

(***************************************************************************)
(* One ClientManager, its consumer thread, the scheduler threads of its    *)
(* MultiImpls and the Tds they run.  A call of the consumer is one step:   *)
(* the workers read nothing that a call writes in two steps.               *)
(***************************************************************************)
InitClient ==
  /\ messages_ = Nil
  /\ present = {}
  /\ dates = [message_id \in MsgIds |-> 1]
  /\ fatal = ""
  /\ call = <<"ClientManager">>
  /\ ret = NoResponse
  /\ NewClientManager

\* thread::hardware_concurrency() is read by the first get of a pool only.
CreateClient(hardware_concurrency) ==
  /\ fatal = "" /\ phase = "live"
  /\ (current_id - 1) + sent + updates < MaxCalls
  /\ LET got       == MultiImplPool_get(impls_, pool_impls_, made,
                                        hardware_concurrency)
         impl      == got.res
         client_id == current_id
     IN  /\ pool_impls_' = got.pool
         /\ made' = got.made
         /\ current_id' = current_id + 1
         /\ mailbox' = [mailbox EXCEPT ![impl] = MultiImpl_create(@, client_id)]
         /\ impls_' = MapSet(impls_, client_id, impl)
         /\ call' = <<"create_client", hardware_concurrency>>
         /\ ret' = [client_id |-> client_id]
  /\ UNCHANGED <<fatal, tds_, session, inbox, writer_vector_, reader_vector_,
                 output_queue_ready_cnt_, receive_lock_, receiving, phase, sent, updates,
                 emitted, received>>
  /\ UNCHANGED varsTree

\* The consumer numbers its requests 1, 2, ... over all its clients; it sends
\* to the clients it created, to the one it has not created yet and to 0.
Send(client_id, function) ==
  /\ fatal = "" /\ phase = "live"
  /\ (current_id - 1) + sent + updates < MaxCalls
  /\ LET request_id == sent + 1
         it         == find(impls_, client_id)
     IN  /\ IF it = {}
            THEN /\ writer_vector_' =
                      add_response(writer_vector_, client_id, request_id, Error400)
                 /\ UNCHANGED mailbox
            ELSE /\ mailbox' = [multi_impl \in MultiImpls |->
                      IF multi_impl \in it
                      THEN MultiImpl_send(mailbox[multi_impl], client_id,
                                          request_id, function)
                      ELSE mailbox[multi_impl]]
                 /\ UNCHANGED writer_vector_
         /\ call' = <<"send", client_id, request_id, function>>
  /\ sent' = sent + 1
  /\ emitted' = Log(emitted, writer_vector_, writer_vector_', "add_response")
  /\ ret' = Void
  /\ UNCHANGED <<fatal, impls_, pool_impls_, made, current_id, tds_, session,
                 inbox, reader_vector_, output_queue_ready_cnt_, receive_lock_, receiving,
                 phase, updates, received>>
  /\ UNCHANGED varsTree

\* ClientManager::Impl::receive, also as ~Impl calls it.  Erasing the last
\* binding of a MultiImpl destroys it: its MultiTd and what was sent to it.
Receive ==
  /\ fatal = "" /\ phase \in {"live", "destructing"}
  /\ IF receive_lock_
     THEN /\ fatal' = "CHECK(!is_locked)"
          /\ UNCHANGED <<ret, impls_, mailbox, tds_, writer_vector_,
                         reader_vector_, output_queue_ready_cnt_, phase,
                         received>>
     ELSE LET r        == receive_unlocked(output_queue_ready_cnt_, writer_vector_,
                                           reader_vector_)
              response == r.response
              erased   == IF IsSentinel(response)
                          THEN MapErase(impls_, response.client_id) ELSE impls_
              dead     == {multi_impl \in MultiImpls : Holders(erased, multi_impl) = 0}
          IN  /\ output_queue_ready_cnt_' = r.cnt
              /\ writer_vector_' = r.writer
              /\ reader_vector_' = r.reader
              /\ ret' = response
              /\ received' = IF response = NoResponse THEN received
                             ELSE Append(received, response)
              /\ impls_' = erased
              /\ mailbox' = [multi_impl \in MultiImpls |->
                              IF multi_impl \in dead THEN <<>> ELSE mailbox[multi_impl]]
              /\ tds_' = [multi_impl \in MultiImpls |->
                           IF multi_impl \in dead THEN {} ELSE tds_[multi_impl]]
              /\ phase' = IF phase = "destructing" /\ DOMAIN erased = {}
                          THEN "destroyed" ELSE phase
              /\ UNCHANGED fatal
  /\ call' = <<"receive">>
  /\ UNCHANGED <<pool_impls_, made, current_id, session, inbox, receive_lock_, receiving,
                 sent, updates, emitted>>
  /\ UNCHANGED varsTree

\* ~Impl up to its first receive.
Destroy ==
  /\ fatal = "" /\ phase = "live"
  /\ mailbox' = CloseAll(mailbox, impls_, DOMAIN impls_)
  /\ phase' = IF DOMAIN impls_ = {} THEN "destroyed" ELSE "destructing"
  /\ call' = <<"~ClientManager">>
  /\ ret' = Void
  /\ UNCHANGED <<fatal, impls_, pool_impls_, made, current_id, tds_, session,
                 inbox, writer_vector_, reader_vector_,
                 output_queue_ready_cnt_, receive_lock_, receiving, sent, updates,
                 emitted, received>>
  /\ UNCHANGED varsTree

\* The scheduler thread of a MultiImpl runs the next closure of its MultiTd.
MultiTdRun(multi_impl) ==
  /\ fatal = ""
  /\ mailbox[multi_impl] # <<>>
  /\ LET closure == Head(mailbox[multi_impl])
         r == CASE closure.op = "create" -> MultiTd_create(tds_[multi_impl], closure.id)
                [] closure.op = "send"   -> MultiTd_send(tds_[multi_impl], closure.id)
                [] closure.op = "close"  -> MultiTd_close(tds_[multi_impl], closure.id)
     IN  /\ fatal' = r.fatal
         /\ tds_' = [tds_ EXCEPT ![multi_impl] = r.tds]
         /\ session' =
              IF r.fatal # "" THEN session
              ELSE CASE closure.op = "create" -> [session EXCEPT ![closure.id] = "open"]
                     [] closure.op = "send"   -> session
                     [] closure.op = "close"  ->
                          [client_id \in ClientIds |->
                             IF client_id \in tds_[multi_impl] \ r.tds
                             THEN Hangup(session[client_id])
                             ELSE session[client_id]]
         /\ inbox' =
              IF r.fatal = "" /\ closure.op = "send"
              THEN [inbox EXCEPT ![closure.id] =
                      Td_request(session[closure.id], @, closure.request_id,
                                 closure.function)]
              ELSE inbox
  /\ mailbox' = [mailbox EXCEPT ![multi_impl] = Tail(@)]
  /\ UNCHANGED <<call, ret, impls_, pool_impls_, made, current_id,
                 writer_vector_, reader_vector_, output_queue_ready_cnt_,
                 receive_lock_, receiving, phase, sent, updates, emitted, received>>
  /\ UNCHANGED varsTree

\* A Td answers the request it was sent first; a close request closes it.
TdAnswer(client_id) ==
  /\ fatal = ""
  /\ session[client_id] \in {"open", "closing"}
  /\ inbox[client_id] # <<>>
  /\ LET request == Head(inbox[client_id])
     IN  /\ writer_vector_' =
              IF session[client_id] = "open"
              THEN on_result(writer_vector_, client_id, request.request_id, "object")
              ELSE on_error(writer_vector_, client_id, request.request_id, "error")
         /\ session' = IF request.function = "close"
                       THEN [session EXCEPT ![client_id] = "closing"] ELSE session
  /\ inbox' = [inbox EXCEPT ![client_id] = Tail(@)]
  /\ emitted' = Log(emitted, writer_vector_, writer_vector_', "callback")
  /\ UNCHANGED <<fatal, call, ret, impls_, pool_impls_, made, current_id,
                 mailbox, tds_, reader_vector_, output_queue_ready_cnt_,
                 receive_lock_, receiving, phase, sent, updates, received>>
  /\ UNCHANGED varsTree

\* An open Td sends an update.
TdUpdate(client_id) ==
  /\ fatal = ""
  /\ session[client_id] = "open"
  /\ (current_id - 1) + sent + updates < MaxCalls
  /\ writer_vector_' = on_result(writer_vector_, client_id, 0, "update")
  /\ updates' = updates + 1
  /\ emitted' = Log(emitted, writer_vector_, writer_vector_', "callback")
  /\ UNCHANGED <<fatal, call, ret, impls_, pool_impls_, made, current_id,
                 mailbox, tds_, session, inbox, reader_vector_,
                 output_queue_ready_cnt_, receive_lock_, receiving, phase, sent,
                 received>>
  /\ UNCHANGED varsTree

\* A closing Td that has answered everything stops and destroys its callback.
TdStop(client_id) ==
  /\ fatal = ""
  /\ session[client_id] = "closing"
  /\ inbox[client_id] = <<>>
  /\ session' = [session EXCEPT ![client_id] = "destroyed"]
  /\ writer_vector_' = CallbackDestructor(writer_vector_, client_id)
  /\ emitted' = Log(emitted, writer_vector_, writer_vector_', "callback")
  /\ UNCHANGED <<fatal, call, ret, impls_, pool_impls_, made, current_id,
                 mailbox, tds_, inbox, reader_vector_, output_queue_ready_cnt_,
                 receive_lock_, receiving, phase, sent, updates, received>>
  /\ UNCHANGED varsTree

NextClient ==
  \/ CreateClient(0)
  \/ \E client_id \in 0..current_id, function \in Functions :
       Send(client_id, function)
  \/ Receive
  \/ Destroy
  \/ \E multi_impl \in MultiImpls : MultiTdRun(multi_impl)
  \/ \E client_id \in ClientIds : TdAnswer(client_id)
  \/ \E client_id \in ClientIds : TdUpdate(client_id)
  \/ \E client_id \in ClientIds : TdStop(client_id)

SpecClient == InitClient /\ [][NextClient]_vars

(***************************************************************************)
(* Client::Impl, the wrapper of one client.  It owns a TdReceiver of its   *)
(* own; impls_ stands for its multi_impl_ and td_id_, and phase reads      *)
(* "Client", "~Client" and "Client destroyed".                             *)
(***************************************************************************)
InitWrapper ==
  /\ messages_ = Nil
  /\ present = {}
  /\ dates = [message_id \in MsgIds |-> 1]
  /\ fatal = ""
  /\ call = <<"Client">>
  /\ ret = NoResponse
  /\ LET got         == MultiImplPool_get(<<>>, [slot \in Slots |-> 0], 0, 0)
         multi_impl_ == got.res
         td_id_      == 1
     IN  /\ impls_ = MapSet(<<>>, td_id_, multi_impl_)
         /\ pool_impls_ = got.pool
         /\ made = got.made
         /\ current_id = td_id_ + 1
         /\ mailbox = [multi_impl \in MultiImpls |->
                         IF multi_impl = multi_impl_
                         THEN MultiImpl_create(<<>>, td_id_) ELSE <<>>]
  /\ tds_ = [multi_impl \in MultiImpls |-> {}]
  /\ session = [client_id \in ClientIds |-> "none"]
  /\ inbox = [client_id \in ClientIds |-> <<>>]
  /\ writer_vector_ = <<>>
  /\ reader_vector_ = <<>>
  /\ output_queue_ready_cnt_ = 0
  /\ receive_lock_ = FALSE
  /\ receiving = {}
  /\ phase = "Client"
  /\ sent = 0
  /\ updates = 0
  /\ emitted = <<>>
  /\ received = <<>>

\* Client::Impl::send: a request with id 0 or without a function is dropped.
ClientSend(id, function) ==
  /\ fatal = "" /\ phase = "Client"
  /\ (current_id - 1) + sent + updates < MaxCalls
  /\ mailbox' = IF id = 0 \/ function = "nullptr" THEN mailbox
                ELSE [multi_impl \in MultiImpls |->
                        IF multi_impl \in find(impls_, 1)
                        THEN MultiImpl_send(mailbox[multi_impl], 1, id, function)
                        ELSE mailbox[multi_impl]]
  /\ sent' = sent + 1
  /\ call' = <<"send", 1, id, function>>
  /\ ret' = Void
  /\ UNCHANGED <<fatal, impls_, pool_impls_, made, current_id, tds_, session,
                 inbox, writer_vector_, reader_vector_,
                 output_queue_ready_cnt_, receive_lock_, receiving, phase, updates,
                 emitted, received>>
  /\ UNCHANGED varsTree

\* Client::Impl::receive, and the receive of the loop of ~Impl, which ends
\* at the sentinel; then multi_impl_ is released.
ClientReceive ==
  /\ fatal = "" /\ phase \in {"Client", "~Client"}
  /\ IF receive_lock_
     THEN /\ fatal' = "CHECK(!is_locked)"
          /\ UNCHANGED <<ret, impls_, mailbox, tds_, writer_vector_,
                         reader_vector_, output_queue_ready_cnt_, phase,
                         received>>
     ELSE LET r        == receive_unlocked(output_queue_ready_cnt_, writer_vector_,
                                           reader_vector_)
              response == r.response
              done     == phase = "~Client" /\ IsSentinel(response)
          IN  /\ output_queue_ready_cnt_' = r.cnt
              /\ writer_vector_' = r.writer
              /\ reader_vector_' = r.reader
              /\ ret' = response
              /\ received' = IF response = NoResponse THEN received
                             ELSE Append(received, response)
              /\ impls_' = IF done THEN <<>> ELSE impls_
              /\ mailbox' = IF done THEN [multi_impl \in MultiImpls |-> <<>>] ELSE mailbox
              /\ tds_' = IF done THEN [multi_impl \in MultiImpls |-> {}] ELSE tds_
              /\ phase' = IF done THEN "Client destroyed" ELSE phase
              /\ UNCHANGED fatal
  /\ call' = <<"receive">>
  /\ UNCHANGED <<pool_impls_, made, current_id, session, inbox, receive_lock_, receiving,
                 sent, updates, emitted>>
  /\ UNCHANGED varsTree

\* ~Impl up to its first receive.
ClientDestroy ==
  /\ fatal = "" /\ phase = "Client"
  /\ mailbox' = CloseAll(mailbox, impls_, DOMAIN impls_)
  /\ phase' = "~Client"
  /\ call' = <<"~Client">>
  /\ ret' = Void
  /\ UNCHANGED <<fatal, impls_, pool_impls_, made, current_id, tds_, session,
                 inbox, writer_vector_, reader_vector_,
                 output_queue_ready_cnt_, receive_lock_, receiving, sent, updates,
                 emitted, received>>
  /\ UNCHANGED varsTree

(***************************************************************************)
(* A ClientManager or a Client with the scheduler threads running: a       *)
(* closure sent to a MultiTd is run, a Td answers and stops, and a caller  *)
(* that polls keeps polling, as the loops of the destructors do.           *)
(***************************************************************************)
InitTermination == InitClient \/ InitWrapper

NextTermination ==
  \/ CreateClient(0)
  \/ \E client_id \in 0..current_id, function \in Functions :
       Send(client_id, function)
  \/ Receive
  \/ Destroy
  \/ \E id \in {0, sent + 1}, function \in Functions \cup {"nullptr"} :
       ClientSend(id, function)
  \/ ClientReceive
  \/ ClientDestroy
  \/ \E multi_impl \in MultiImpls : MultiTdRun(multi_impl)
  \/ \E client_id \in ClientIds : TdAnswer(client_id)
  \/ \E client_id \in ClientIds : TdUpdate(client_id)
  \/ \E client_id \in ClientIds : TdStop(client_id)

FairTermination ==
  /\ \A multi_impl \in MultiImpls : WF_vars(MultiTdRun(multi_impl))
  /\ \A client_id \in ClientIds : WF_vars(TdAnswer(client_id))
  /\ \A client_id \in ClientIds : WF_vars(TdStop(client_id))
  /\ WF_vars(Receive)
  /\ WF_vars(ClientReceive)

SpecTermination == InitTermination /\ [][NextTermination]_vars /\ FairTermination

(***************************************************************************)
(* A live ClientManager whose receive is called by several threads.  A     *)
(* receive is two steps here: the exchange that takes the lock, then       *)
(* receive_unlocked with the exchange that frees the lock and the erase    *)
(* of ClientManager::Impl::receive.                                        *)
(***************************************************************************)
ReceiveBegin(thread) ==
  /\ fatal = "" /\ phase = "live"
  /\ thread \notin receiving
  /\ LET is_locked == exchange(receive_lock_, TRUE)
     IN  /\ receive_lock_' = is_locked.new
         /\ fatal' = IF is_locked.old THEN "CHECK(!is_locked)" ELSE ""
         /\ receiving' = IF is_locked.old THEN receiving ELSE receiving \cup {thread}
  /\ call' = <<"receive", thread>>
  /\ UNCHANGED <<ret, impls_, pool_impls_, made, current_id, mailbox, tds_,
                 session, inbox, writer_vector_, reader_vector_,
                 output_queue_ready_cnt_, phase, sent, updates, emitted,
                 received>>
  /\ UNCHANGED varsTree

ReceiveEnd(thread) ==
  /\ fatal = "" /\ phase = "live"
  /\ thread \in receiving
  /\ LET r         == receive_unlocked(output_queue_ready_cnt_, writer_vector_,
                                       reader_vector_)
         is_locked == exchange(receive_lock_, FALSE)
         response  == r.response
         erased    == IF is_locked.old /\ IsSentinel(response)
                      THEN MapErase(impls_, response.client_id) ELSE impls_
         dead      == {multi_impl \in MultiImpls : Holders(erased, multi_impl) = 0}
     IN  /\ output_queue_ready_cnt_' = r.cnt
         /\ writer_vector_' = r.writer
         /\ reader_vector_' = r.reader
         /\ receive_lock_' = is_locked.new
         /\ fatal' = IF is_locked.old THEN "" ELSE "CHECK(is_locked)"
         /\ receiving' = receiving \ {thread}
         /\ ret' = IF is_locked.old THEN response ELSE ret
         /\ received' = IF is_locked.old /\ response # NoResponse
                        THEN Append(received, response) ELSE received
         /\ impls_' = erased
         /\ mailbox' = [multi_impl \in MultiImpls |->
                         IF multi_impl \in dead THEN <<>> ELSE mailbox[multi_impl]]
         /\ tds_' = [multi_impl \in MultiImpls |->
                      IF multi_impl \in dead THEN {} ELSE tds_[multi_impl]]
  /\ call' = <<"receive returns", thread>>
  /\ UNCHANGED <<pool_impls_, made, current_id, session, inbox, phase, sent,
                 updates, emitted>>
  /\ UNCHANGED varsTree

NextReceive ==
  \/ CreateClient(0)
  \/ \E client_id \in 0..current_id, function \in Functions :
       Send(client_id, function)
  \/ \E thread \in Threads : ReceiveBegin(thread)
  \/ \E thread \in Threads : ReceiveEnd(thread)
  \/ \E multi_impl \in MultiImpls : MultiTdRun(multi_impl)
  \/ \E client_id \in ClientIds : TdAnswer(client_id)
  \/ \E client_id \in ClientIds : TdUpdate(client_id)
  \/ \E client_id \in ClientIds : TdStop(client_id)

SpecReceive == InitClient /\ [][NextReceive]_vars

(***************************************************************************)
(* The clients of a ClientManager whose pool is empty until the first get. *)
(***************************************************************************)
InitPoolSize ==
  /\ messages_ = Nil
  /\ present = {}
  /\ dates = [message_id \in MsgIds |-> 1]
  /\ fatal = ""
  /\ call = <<"ClientManager">>
  /\ ret = NoResponse
  /\ impls_ = <<>>
  /\ pool_impls_ = <<>>
  /\ made = 0
  /\ current_id = 1
  /\ mailbox = [multi_impl \in MultiImpls |-> <<>>]
  /\ tds_ = [multi_impl \in MultiImpls |-> {}]
  /\ session = [client_id \in ClientIds |-> "none"]
  /\ inbox = [client_id \in ClientIds |-> <<>>]
  /\ writer_vector_ = <<>>
  /\ reader_vector_ = <<>>
  /\ output_queue_ready_cnt_ = 0
  /\ receive_lock_ = FALSE
  /\ receiving = {}
  /\ phase = "live"
  /\ sent = 0
  /\ updates = 0
  /\ emitted = <<>>
  /\ received = <<>>

NextPoolSize ==
  \/ /\ pool_impls_ = <<>>
     /\ \E hardware_concurrency \in 0..MaxHardwareConcurrency :
          CreateClient(hardware_concurrency)
  \/ /\ pool_impls_ # <<>>
     /\ CreateClient(0)

SpecPoolSize == InitPoolSize /\ [][NextPoolSize]_vars

(***************************************************************************)
(* What the properties are stated with.                                    *)
(***************************************************************************)
\* The ids of a finite set, ascending.
RECURSIVE Ascending(_)
Ascending(S) ==
  IF S = {} THEN <<>>
  ELSE LET least == CHOOSE x \in S : \A y \in S : x <= y
       IN  <<least>> \o Ascending(S \ {least})

Range(seq) == {seq[i] : i \in 1..Len(seq)}

Greatest(S) == CHOOSE x \in S : \A y \in S : y <= x

\* Every node of a tree, found by walking all of it.
RECURSIVE NodesOf(_)
NodesOf(t) ==
  IF t = Nil THEN {} ELSE {t} \cup NodesOf(t.left) \cup NodesOf(t.right)

NodeOf(t, message_id) == CHOOSE n \in NodesOf(t) : n.message_id = message_id

\* The in-order neighbours of an id among the present ids.
HasPredecessor(message_id) == \E x \in present : x < message_id

Predecessor(message_id) == Greatest({x \in present : x < message_id})

\* The tree t with have_next set on the node of one id and nothing else changed.
RECURSIVE WithHaveNext(_, _)
WithHaveNext(t, message_id) ==
  IF t = Nil THEN Nil
  ELSE [t EXCEPT !.have_next = (t.message_id = message_id) \/ @,
                 !.left = WithHaveNext(t.left, message_id),
                 !.right = WithHaveNext(t.right, message_id)]

(***************************************************************************)
(* Properties of the queries, under SpecQuery.                             *)
(***************************************************************************)
\* C1: after any inserts (of absent ids) and erases (of present ids),
\* find_older_messages(M) with M at least the largest present id returns
\* exactly the present ids, each once, in strictly ascending order.
C1_FindOlderReturnsAll ==
  (call[1] = "find_older_messages" /\ \A m \in present : m <= call[2])
    => ret = Ascending(present)

C1_Witness ==
  /\ call[1] = "find_older_messages"
  /\ Cardinality(present) >= 3
  /\ present # MsgIds
  /\ \A m \in present : m <= call[2]
  /\ ret = Ascending(present)

\* C3: for every reachable tree and every id x, present or absent,
\* find_older_messages(x) returns exactly the present ids <= x and
\* find_newer_messages(x) exactly the present ids > x, both ascending; the
\* two results are disjoint and their union is the set of present ids.
C3_OlderNewerPartition ==
  /\ call[1] = "find_older_messages"
       => ret = Ascending({m \in present : m <= call[2]})
  /\ call[1] = "find_newer_messages"
       => ret = Ascending({m \in present : m > call[2]})
  /\ \A x \in QueryIds :
       LET older == Range(find_older_messages(messages_, x))
           newer == Range(find_newer_messages(messages_, x))
       IN  older \cap newer = {} /\ older \cup newer = present

C3_Witness ==
  /\ call[1] = "find_newer_messages"
  /\ call[2] \notin present
  /\ Len(ret) >= 2
  /\ Len(find_older_messages(messages_, call[2])) >= 2
  /\ ret = Ascending({m \in present : m > call[2]})

\* C4: with dates that do not decrease with the message id,
\* find_message_by_date(d) returns the greatest present id whose date is
\* <= d, and the invalid default MessageId when no present id has one.
C4_FindMessageByDate ==
  call[1] = "find_message_by_date"
    => LET notLater == {m \in present : dates[m] <= call[2]}
       IN  ret = IF notLater = {} THEN NoMessageId ELSE Greatest(notLater)

C4_Witness ==
  /\ call[1] = "find_message_by_date"
  /\ is_valid(ret)
  /\ \E m \in present : m < ret
  /\ \E m \in present : m > ret /\ dates[m] > call[2]

\* C5: with dates that do not decrease with the message id,
\* find_messages_by_date(min_date, max_date) returns exactly the present ids
\* whose date lies in [min_date, max_date], in ascending id order.
C5_FindMessagesByDate ==
  call[1] = "find_messages_by_date"
    => ret = Ascending({m \in present : call[2] <= dates[m] /\ dates[m] <= call[3]})

C5_Witness ==
  /\ call[1] = "find_messages_by_date"
  /\ Len(ret) >= 2
  /\ \E m \in present : dates[m] < call[2]
  /\ \E m \in present : dates[m] > call[3]

(***************************************************************************)
(* The date lookup with dates of any order, under SpecDates.               *)
(***************************************************************************)
\* The dates of the present messages do not decrease with the message id.
MonotoneOnPresent ==
  \A a, b \in present : a < b => dates[a] <= dates[b]

\* The present ids whose date is not later than the date.
NotLater(date) == {m \in present : dates[m] <= date}

\* C19, as claimed: for every get_date function, monotonic in the message id
\* or not, find_message_by_date(d) returns the greatest present id whose
\* date is <= d.
C19_AsClaimed ==
  call[1] = "find_message_by_date"
    => ret = IF NotLater(call[2]) = {} THEN NoMessageId ELSE Greatest(NotLater(call[2]))

\* C19, amended: find_message_by_date(d) returns the greatest present id
\* whose date is <= d when the dates of the present messages do not decrease
\* with the message id; for any other get_date function it returns the
\* invalid id or some present id whose date is <= d.
C19_FindMessageByDateAnyDates ==
  call[1] = "find_message_by_date"
    => /\ is_valid(ret) => ret \in NotLater(call[2])
       /\ MonotoneOnPresent
            => ret = IF NotLater(call[2]) = {} THEN NoMessageId
                     ELSE Greatest(NotLater(call[2]))

\* The lookup has pruned a subtree with a greater id of a date <= d: the
\* dates are not monotone and the id returned is not the greatest one.
C19_Witness ==
  /\ call[1] = "find_message_by_date"
  /\ ~MonotoneOnPresent
  /\ is_valid(ret)
  /\ ret \in NotLater(call[2])
  /\ ret # Greatest(NotLater(call[2]))

(***************************************************************************)
(* Properties of insert, erase and the adjacency operations, under          *)
(* SpecIndex.                                                              *)
(***************************************************************************)
\* C2: misuse is fatal in every reachable tree: insert of an id that is
\* present always reaches UNREACHABLE in its descent (it never inserts a
\* second copy), and erase of an absent id always fails
\* CHECK(result != nullptr), neither having modified the tree.
C2_MisuseIsFatal ==
  [][/\ (call'[1] = "insert" /\ call'[2] \in present)
          => (fatal' = "UNREACHABLE" /\ messages_' = messages_)
     /\ (call'[1] = "erase" /\ call'[2] \notin present)
          => (fatal' = "CHECK(result != nullptr)" /\ messages_' = messages_)
    ]_vars

C2_Witness ==
  /\ call[1] = "insert"
  /\ fatal = "UNREACHABLE"
  /\ call[2] \in present
  /\ messages_.message_id # call[2]
  /\ Cardinality(present) >= 3

\* C6, as claimed: whenever B is present and has an in-order predecessor A,
\* after attach_message_to_previous(B) returns, A.have_next and
\* B.have_previous are both true.
C6_AsClaimed ==
  (call[1] = "attach_message_to_previous" /\ fatal = "" /\ HasPredecessor(call[2]))
    => /\ NodeOf(messages_, call[2]).have_previous
       /\ NodeOf(messages_, Predecessor(call[2])).have_next

\* C6, amended: whenever B is present with have_previous false and has an
\* in-order predecessor A, after attach_message_to_previous(B) returns,
\* A.have_next and B.have_previous are both true.
C6_AttachToPrevious ==
  [][(/\ call'[1] = "attach_message_to_previous"
      /\ call'[2] \in present
      /\ HasPredecessor(call'[2])
      /\ ~NodeOf(messages_, call'[2]).have_previous)
       => /\ fatal' = ""
          /\ NodeOf(messages_', call'[2]).have_previous
          /\ NodeOf(messages_', Predecessor(call'[2])).have_next
    ]_vars

C6_Witness ==
  /\ call[1] = "attach_message_to_previous"
  /\ fatal = ""
  /\ HasPredecessor(call[2])
  /\ NodeOf(messages_, call[2]).have_previous
  /\ ~NodeOf(messages_, call[2]).have_next
  /\ NodeOf(messages_, Predecessor(call[2])).have_next
  /\ ~NodeOf(messages_, Predecessor(call[2])).have_previous

\* Three neighbouring ids a < b < c right after attach_message_to_previous(b)
\* was called on them with all their flags false.
AfterFirstAttach(a, b, c) ==
  /\ call[1] = "attach_message_to_previous"
  /\ call[2] = b
  /\ fatal = ""
  /\ {a, b, c} \subseteq present
  /\ a < b /\ b < c
  /\ \A x \in present : ~(a < x /\ x < b) /\ ~(b < x /\ x < c)
  /\ ~NodeOf(messages_, a).have_previous /\ NodeOf(messages_, a).have_next
  /\ NodeOf(messages_, b).have_previous /\ ~NodeOf(messages_, b).have_next
  /\ ~NodeOf(messages_, c).have_previous /\ ~NodeOf(messages_, c).have_next

\* C7, as claimed: for neighbouring ids A < B < C with all flags false,
\* after attach_message_to_previous(B) and then attach_message_to_previous(C),
\* B.have_next and C.have_previous are true and C.have_next is true as well.
C7_AsClaimed ==
  [][(call[1] = "attach_message_to_previous" /\ call'[1] = "attach_message_to_previous")
       => \A a \in MsgIds :
            AfterFirstAttach(a, call[2], call'[2])
              => /\ NodeOf(messages_', call[2]).have_next
                 /\ NodeOf(messages_', call'[2]).have_previous
                 /\ NodeOf(messages_', call'[2]).have_next
    ]_vars

\* C7, amended: for neighbouring ids A < B < C with all flags false, after
\* attach_message_to_previous(B) and then attach_message_to_previous(C),
\* B.have_next and C.have_previous are true and C.have_next is still false:
\* B.have_next was false when the second call read it.
C7_AttachRun ==
  [][(call[1] = "attach_message_to_previous" /\ call'[1] = "attach_message_to_previous")
       => \A a \in MsgIds :
            AfterFirstAttach(a, call[2], call'[2])
              => /\ fatal' = ""
                 /\ NodeOf(messages_', call[2]).have_next
                 /\ NodeOf(messages_', call'[2]).have_previous
                 /\ ~NodeOf(messages_', call'[2]).have_next
    ]_vars

C7_Witness ==
  /\ call[1] = "attach_message_to_previous"
  /\ fatal = ""
  /\ \E a, b \in present :
       /\ a < b /\ b < call[2]
       /\ \A x \in present : ~(a < x /\ x < b) /\ ~(b < x /\ x < call[2])
       /\ ~NodeOf(messages_, a).have_previous /\ NodeOf(messages_, a).have_next
       /\ NodeOf(messages_, b).have_previous /\ NodeOf(messages_, b).have_next
       /\ NodeOf(messages_, call[2]).have_previous
       /\ ~NodeOf(messages_, call[2]).have_next

\* What C8 is about: auto_attach_message(m, last) is called when the
\* greatest present id P < m exists and P.have_next is true, or last is
\* valid and P >= last.
PredecessorBranch(m, last) ==
  /\ HasPredecessor(m)
  /\ \/ NodeOf(messages_, Predecessor(m)).have_next
     \/ is_valid(last) /\ Predecessor(m) >= last

\* C8, as claimed: in the predecessor branch the call returns
\* {have_previous = true, have_next = P.have_next before the call}, sets
\* P.have_next and changes no other flag and no tree structure.
C8_AsClaimed ==
  [][(call'[1] = "auto_attach_message" /\ PredecessorBranch(call'[2], call'[3]))
       => /\ fatal' = ""
          /\ ret' = AttachInfo(TRUE, NodeOf(messages_, Predecessor(call'[2])).have_next)
          /\ messages_' = WithHaveNext(messages_, Predecessor(call'[2]))
    ]_vars

\* C8, amended: the same, when m itself is not present.  (When m is present
\* the call fails CHECK(previous_message_id < message_id).)
C8_AutoAttachToPrevious ==
  [][(/\ call'[1] = "auto_attach_message"
      /\ call'[2] \notin present
      /\ PredecessorBranch(call'[2], call'[3]))
       => /\ fatal' = ""
          /\ ret' = AttachInfo(TRUE, NodeOf(messages_, Predecessor(call'[2])).have_next)
          /\ messages_' = WithHaveNext(messages_, Predecessor(call'[2]))
    ]_vars

C8_Witness ==
  /\ call[1] = "auto_attach_message"
  /\ fatal = ""
  /\ call[2] \notin present
  /\ ret = AttachInfo(TRUE, FALSE)
  /\ HasPredecessor(call[2])
  /\ is_valid(call[3]) /\ Predecessor(call[2]) >= call[3]
  /\ NodeOf(messages_, Predecessor(call[2])).have_next
  /\ \E x \in present : x > call[2]
  /\ \E x \in present : x < Predecessor(call[2])

\* x + y and 2 * x modulo 2^32, read as two's complement 32-bit integers;
\* no intermediate value leaves the 32-bit range.
AddInt32(x, y) ==
  IF x >= 0 /\ y >= 0 /\ x > 2147483647 - y
  THEN ((x - 2147483647) - 1) + ((y - 2147483647) - 1)
  ELSE IF x < 0 /\ y < 0 /\ x < (-2147483647 - 1) - y
  THEN ((x + 2147483647) + 1) + ((y + 2147483647) + 1)
  ELSE x + y

\* (message_id * 2101234567) mod 2^32 as a signed 32-bit integer, by doubling.
RECURSIVE ProductInt32(_)
ProductInt32(message_id) ==
  IF message_id = 0 THEN 0
  ELSE LET half == ProductInt32(message_id \div 2)
       IN  AddInt32(AddInt32(half, half),
                    IF message_id % 2 = 1 THEN 2101234567 ELSE 0)

\* The product of every id the model draws.
ProductOf == [message_id \in MsgIds |-> ProductInt32(message_id)]

\* The ids of a tree, found by walking all of it.
RECURSIVE InOrderIds(_)
InOrderIds(t) ==
  IF t = Nil THEN {}
  ELSE InOrderIds(t.left) \cup {t.message_id} \cup InOrderIds(t.right)

\* C17: in every state reachable by insert and erase, for every node all ids
\* in its left subtree are smaller and all ids in its right subtree are
\* greater, its random_y is at least the random_y of each of its children,
\* and its random_y is (message_id * 2101234567) mod 2^32 read as a signed
\* 32-bit integer.
C17_TreapInvariants ==
  \A n \in NodesOf(messages_) :
    /\ \A x \in InOrderIds(n.left) : x < n.message_id
    /\ \A x \in InOrderIds(n.right) : x > n.message_id
    /\ n.left # Nil => n.random_y >= n.left.random_y
    /\ n.right # Nil => n.random_y >= n.right.random_y
    /\ n.random_y = ProductOf[n.message_id]

\* An erase has melded the children of a node above two others: the root has
\* both children and one of them has a child of its own.
C17_Witness ==
  /\ call[1] = "erase"
  /\ fatal = ""
  /\ Cardinality(present) >= 4
  /\ messages_.left # Nil
  /\ messages_.right # Nil
  /\ \E n \in NodesOf(messages_) : n # messages_ /\ (n.left # Nil \/ n.right # Nil)
  /\ \E n \in NodesOf(messages_) : n.random_y < 0

\* The nodes of a tree in order: left subtree, node, right subtree.
RECURSIVE InOrder(_)
InOrder(t) ==
  IF t = Nil THEN <<>> ELSE InOrder(t.left) \o <<t>> \o InOrder(t.right)

\* A node with have_next is the last in order or the next one has
\* have_previous; a node with have_previous is the first in order or the one
\* before it has have_next.
Adjacency(t) ==
  LET nodes == InOrder(t)
  IN  \A i \in DOMAIN nodes :
        /\ nodes[i].have_next
             => (i = Len(nodes) \/ nodes[i + 1].have_previous)
        /\ nodes[i].have_previous
             => (i = 1 \/ nodes[i - 1].have_next)

\* The least present id above an id that has one.
Successor(message_id) ==
  CHOOSE x \in present :
    x > message_id /\ \A y \in present : y > message_id => x <= y

\* C18, as claimed: the adjacency invariant holds in every state reachable by
\* insert, erase, attach_message_to_previous, attach_message_to_next and
\* auto_attach_message.
C18_AsClaimed == Adjacency(messages_)

\* C18, amended: attach_message_to_previous and attach_message_to_next keep
\* the adjacency invariant: called in a state where it holds, they leave a
\* state where it holds.
C18_AttachKeepsAdjacency ==
  [][(/\ Adjacency(messages_)
      /\ call'[1] \in {"attach_message_to_previous", "attach_message_to_next"})
       => Adjacency(messages_')]_vars

\* An attach has joined a node to a run: three nodes in a row carry flags
\* and the adjacency invariant holds.
C18_Witness ==
  /\ call[1] \in {"attach_message_to_previous", "attach_message_to_next"}
  /\ fatal = ""
  /\ Adjacency(messages_)
  /\ \E n \in NodesOf(messages_) :
       /\ n.message_id = call[2]
       /\ n.have_previous /\ n.have_next
       /\ \E x \in present : x < n.message_id
       /\ \E x \in present : x > n.message_id

\* auto_attach_message(m, last) of an absent m is about to take its
\* successor branch: the predecessor branch is not taken, m is not
\* yet-unsent and a present id greater than m exists.
SuccessorBranch(message_id, last_message_id) ==
  /\ message_id \notin present
  /\ ~(/\ HasPredecessor(message_id)
       /\ \/ NodeOf(messages_, Predecessor(message_id)).have_next
          \/ is_valid(last_message_id) /\ Predecessor(message_id) >= last_message_id)
  /\ ~is_yet_unsent(message_id)
  /\ \E x \in present : x > message_id

Sentinel(client_id) == Response(client_id, 0, "nullptr")

\* The positions of the history at which the sentinel of a client was put.
SentinelPuts(client_id) ==
  {i \in DOMAIN emitted : emitted[i].response = Sentinel(client_id)}

\* The positions at which the callback of a client put a result or an error.
CallbackPuts(client_id) ==
  {i \in DOMAIN emitted : /\ emitted[i].by = "callback"
                          /\ emitted[i].response.client_id = client_id
                          /\ emitted[i].response # Sentinel(client_id)}

\* A response as only the callback of the client puts it.
FromCallback(response, client_id) ==
  /\ response.client_id = client_id
  /\ response.object \in {"object", "error", "update"}

\* C9: when send is called with a client_id that was never created, or
\* whose sentinel receive has already returned, exactly one response is put
\* on the output queue for the request, it is (client_id, request_id, error
\* 400) put by add_response, the request reaches no worker and no session,
\* and the process does not abort.
C9_SendToUnboundClient ==
  (/\ call[1] = "send"
   /\ call[2] \notin 1..(current_id - 1) \/ Sentinel(call[2]) \in Range(received))
  => /\ fatal = ""
     /\ Cardinality({i \in DOMAIN emitted :
                       emitted[i].response.request_id = call[3]}) = 1
     /\ [response |-> Response(call[2], call[3], Error400), by |-> "add_response"]
          \in Range(emitted)
     /\ Response(call[2], call[3], Error400)
          \in Range(reader_vector_ \o writer_vector_)
     /\ \A multi_impl \in MultiImpls : \A i \in DOMAIN mailbox[multi_impl] :
          mailbox[multi_impl][i].request_id # call[3]
     /\ \A client_id \in ClientIds : \A i \in DOMAIN inbox[client_id] :
          inbox[client_id][i].request_id # call[3]

\* A send to a client whose sentinel was received before was answered with the error.
C9_Witness ==
  /\ call[1] = "send"
  /\ Sentinel(call[2]) \in Range(received)
  /\ Response(call[2], call[3], Error400) \in Range(writer_vector_)

\* C10: the sentinel (client_id, 0, null) of a client is put on the output
\* queue once when the callback of its session is destroyed and never
\* otherwise, every result and error the callback put for the client was
\* put before it, and when receive returns it, receive has returned all of
\* them.
C10_OneSentinelAfterAllResults ==
  \A client_id \in ClientIds :
    /\ Cardinality(SentinelPuts(client_id)) =
         (IF session[client_id] = "destroyed" THEN 1 ELSE 0)
    /\ \A i \in SentinelPuts(client_id) :
         /\ emitted[i].by = "callback"
         /\ \A j \in CallbackPuts(client_id) : j < i
    /\ \A k \in DOMAIN received :
         received[k] = Sentinel(client_id)
           => Cardinality({j \in 1..(k - 1) : FromCallback(received[j], client_id)})
                = Cardinality(CallbackPuts(client_id))

\* A session that answered a request and sent an update was destroyed, and
\* its sentinel was received.
C10_Witness ==
  \E client_id \in ClientIds :
    /\ session[client_id] = "destroyed"
    /\ Cardinality(CallbackPuts(client_id)) >= 2
    /\ Sentinel(client_id) \in Range(received)

\* The responses of a sequence that carry the client id.
OfClient(responses, client_id) ==
  LET Carries(response) == response.client_id = client_id
  IN  SelectSeq(responses, Carries)

\* Every response put on the output queue, in the order of the puts.
Puts == [i \in DOMAIN emitted |-> emitted[i].response]

IsPrefix(a, b) == Len(a) <= Len(b) /\ a = SubSeq(b, 1, Len(a))

StrictlyAscending(seq) == \A i, j \in DOMAIN seq : i < j => seq[i] < seq[j]

\* The request ids of the client, as far as they got: answered by the
\* callback, waiting in the session, waiting in the mailbox of the MultiTd.
Answered(client_id) ==
  LET Answer(put) == /\ put.by = "callback"
                     /\ put.response.client_id = client_id
                     /\ put.response.request_id # 0
      answers == SelectSeq(emitted, Answer)
  IN  [i \in DOMAIN answers |-> answers[i].response.request_id]

InSession(client_id) ==
  [i \in DOMAIN inbox[client_id] |-> inbox[client_id][i].request_id]

InMailbox(multi_impl, client_id) ==
  LET SendTo(closure) == closure.op = "send" /\ closure.id = client_id
      sends == SelectSeq(mailbox[multi_impl], SendTo)
  IN  [i \in DOMAIN sends |-> sends[i].request_id]

\* C12: the requests sent for one client reach its session in the order of
\* the send calls (their ids ascend along answered, in the session, in the
\* mailbox), receive returns the responses of the client in the order they
\* were put, and so the answers received for a client ascend in request id.
C12_PerClientFifo ==
  \A client_id \in ClientIds :
    /\ \A multi_impl \in MultiImpls :
         StrictlyAscending(Answered(client_id) \o InSession(client_id)
                             \o InMailbox(multi_impl, client_id))
    /\ IsPrefix(OfClient(received, client_id), OfClient(Puts, client_id))
    /\ LET Answer(response) == response.object \in {"object", "error"}
           answers == SelectSeq(OfClient(received, client_id), Answer)
       IN  StrictlyAscending([i \in DOMAIN answers |-> answers[i].request_id])

\* Two requests of one client were answered and both answers were received.
C12_Witness ==
  \E client_id \in ClientIds :
    LET Answer(response) == response.object \in {"object", "error"}
    IN  Len(SelectSeq(OfClient(received, client_id), Answer)) >= 2

\* C13 as claimed: once receive has returned the sentinel of a client, it
\* returns no response with that client id any more.
C13_AsClaimed ==
  \A client_id \in ClientIds : \A k, j \in DOMAIN received :
    (received[k] = Sentinel(client_id) /\ k < j)
      => received[j].client_id # client_id

\* C13: once receive has returned the sentinel of a client, the only
\* responses with that client id it returns are the errors 400 that send
\* makes itself: no result, error or update of the session, no sentinel.
C13_OnlyError400AfterSentinel ==
  \A client_id \in ClientIds : \A k, j \in DOMAIN received :
    (received[k] = Sentinel(client_id) /\ k < j /\ received[j].client_id = client_id)
      => received[j].object = Error400

\* After the sentinel of a client, an error 400 for that client was received.
C13_Witness ==
  \E client_id \in ClientIds : \E k, j \in DOMAIN received :
    /\ received[k] = Sentinel(client_id)
    /\ k < j
    /\ received[j].client_id = client_id
    /\ received[j].object = Error400

\* C14 as claimed: no response put on the output queue carries client id 0.
C14_AsClaimed ==
  \A i \in DOMAIN emitted : emitted[i].response.client_id # 0

\* C14: a response with client id 0 on the output queue is the error 400
\* that a send with client id 0 made; no callback puts one, and none equals
\* the idle response.  receive returns the idle response {0, 0, null} only
\* when its poll found the output queue empty.
C14_ClientIdZero ==
  /\ [](\A i \in DOMAIN emitted :
          emitted[i].response.client_id = 0
            => /\ emitted[i].by = "add_response"
               /\ emitted[i].response.object = Error400
               /\ emitted[i].response.request_id # 0)
  /\ [][(Receive /\ ret' = NoResponse)
          => /\ writer_vector_ = <<>>
             /\ reader_vector_ = <<>>
             /\ output_queue_ready_cnt_ = 0]_vars

\* receive has returned the error 400 of a send with client id 0.
C14_Witness ==
  /\ call = <<"receive">>
  /\ ret.client_id = 0
  /\ ret.object = Error400

\* The MultiImpls that live: some binding holds them.
Alive == {multi_impl \in MultiImpls : Holders(impls_, multi_impl) > 0}

\* C15: the MultiImpls alive at the same time are no more than the slots of
\* the pool, and each of them is the one its slot refers to: no MultiImpl
\* was made in a slot whose MultiImpl was still alive.
C15_PoolBound ==
  /\ Cardinality(Alive) <= Len(pool_impls_)
  /\ \A multi_impl \in Alive :
       \E slot \in DOMAIN pool_impls_ : pool_impls_[slot] = multi_impl
  /\ \A slot, other \in DOMAIN pool_impls_ :
       (pool_impls_[slot] # 0 /\ pool_impls_[slot] = pool_impls_[other])
         => slot = other

\* A second MultiImpl was made in a slot after its first one had expired.
C15_Witness ==
  /\ made >= 2
  /\ Alive # {}
  /\ Cardinality(DOMAIN impls_) >= 1

\* The clients create_client has returned.
Created == 1..(current_id - 1)

\* C21: the binding of a client exists from the return of create_client
\* until the receive call that returns the sentinel of the client; that
\* receive removes it, no other step does (not the request to close, not the
\* put of the sentinel), and in between it refers to the same MultiImpl.
C21_BindingLifetime ==
  /\ [](DOMAIN impls_ =
          {client_id \in Created : Sentinel(client_id) \notin Range(received)})
  /\ [][\A client_id \in ClientIds :
          /\ (client_id \in DOMAIN impls_ /\ client_id \in DOMAIN impls_')
               => impls_'[client_id] = impls_[client_id]
          /\ (client_id \in DOMAIN impls_ /\ client_id \notin DOMAIN impls_')
               => /\ call' = <<"receive">>
                  /\ ret' = Sentinel(client_id)
                  /\ received' = Append(received, Sentinel(client_id))
          /\ (client_id \notin DOMAIN impls_ /\ client_id \in DOMAIN impls_')
               => /\ call'[1] = "create_client"
                  /\ ret' = [client_id |-> client_id]
          /\ (received' # received /\ ret' = Sentinel(client_id))
               => client_id \notin DOMAIN impls_'
       ]_vars

\* A client was asked to close and its sentinel was put, and its binding is
\* still there; the sentinel of another client was received, and its binding
\* is gone.
C21_Witness ==
  \E client_id, other \in Created :
    /\ client_id # other
    /\ Sentinel(client_id) \in Range(Puts)
    /\ client_id \in DOMAIN impls_
    /\ Sentinel(other) \in Range(received)
    /\ other \notin DOMAIN impls_

\* The bindings that hold the MultiImpl of a slot: none when the slot is
\* empty or its MultiImpl has expired.
HoldersOfSlot(map, pool, slot) ==
  IF pool[slot] = 0 THEN 0 ELSE Holders(map, pool[slot])

\* C22: every create_client binds the new client to a slot that had the
\* least holders of all slots when it was chosen; and while no binding has
\* been purged, the numbers of clients of any two slots differ by at most 1.
C22_LeastUsed ==
  /\ [][current_id' # current_id
          => \E slot \in DOMAIN pool_impls_' :
               /\ pool_impls_'[slot] = impls_'[current_id]
               /\ \A other \in DOMAIN pool_impls_ :
                    HoldersOfSlot(impls_, pool_impls_, slot)
                      <= HoldersOfSlot(impls_, pool_impls_, other)
               /\ HoldersOfSlot(impls_', pool_impls_', slot)
                    = HoldersOfSlot(impls_, pool_impls_, slot) + 1
       ]_vars
  /\ [](DOMAIN impls_ = Created
          => \A slot, other \in DOMAIN pool_impls_ :
               HoldersOfSlot(impls_, pool_impls_, slot)
                 <= HoldersOfSlot(impls_, pool_impls_, other) + 1)

\* Every slot has a client and one of them has two: the last create_client
\* had to share a MultiImpl.
C22_Witness ==
  /\ call[1] = "create_client"
  /\ DOMAIN impls_ = Created
  /\ \A slot \in DOMAIN pool_impls_ : HoldersOfSlot(impls_, pool_impls_, slot) >= 1
  /\ \E slot \in DOMAIN pool_impls_ : HoldersOfSlot(impls_, pool_impls_, slot) = 2

\* C24: every response put on the output queue by a callback or by
\* add_response is, in the order of the puts, either returned by one receive
\* call or still on the queue: what receive has returned, what is left on
\* the reader's side and what is on the writers' side are together the puts,
\* and output_queue_ready_cnt_ counts the reader's side.  A receive that
\* returns a response returns the oldest one not returned yet; a receive
\* returns the idle response {0, 0, null} only when the counter is 0 and the
\* poll found nothing.
C24_NoLossNoDuplication ==
  /\ [](Puts = received \o reader_vector_ \o writer_vector_)
  /\ [](output_queue_ready_cnt_ = Len(reader_vector_))
  /\ [][(Receive /\ ret' # NoResponse)
          => /\ Len(received) < Len(Puts)
             /\ ret' = Puts[Len(received) + 1]
             /\ received' = Append(received, ret')]_vars
  /\ [][(Receive /\ ret' = NoResponse)
          => /\ output_queue_ready_cnt_ = 0
             /\ reader_vector_ = <<>>
             /\ writer_vector_ = <<>>
             /\ received' = received]_vars

\* A receive has returned the first response of a batch that one poll had
\* found, with responses put by a callback and by add_response, and a
\* response put after the poll waits on the writers' side.
C24_Witness ==
  /\ call = <<"receive">>
  /\ Len(received) >= 1
  /\ output_queue_ready_cnt_ >= 1
  /\ writer_vector_ # <<>>
  /\ \E i, j \in DOMAIN emitted :
       emitted[i].by = "callback" /\ emitted[j].by = "add_response"

\* The closures of one kind sent to a MultiTd for a client and not yet run.
Pending(box, op, td_id) ==
  {i \in DOMAIN box : box[i].op = op /\ box[i].id = td_id}

\* C25: the CHECKs of MultiTd never fail.  A create closure the worker runs
\* finds no Td under its id and leaves one there: an id is sent to one
\* MultiTd only, and once.  A send closure the worker runs finds a Td under
\* its id: while it waits, the create closure of its client has been run or
\* waits before it in the same mailbox, and no close closure of its client
\* waits before it.
C25_WorkerChecksHold ==
  /\ [](fatal \notin {"CHECK(td.empty())", "CHECK(!td.empty())"})
  /\ [](\A multi_impl \in MultiImpls :
          /\ tds_[multi_impl] \subseteq Created
          /\ \A other \in MultiImpls \ {multi_impl} :
                tds_[multi_impl] \cap tds_[other] = {}
          /\ \A i \in DOMAIN mailbox[multi_impl] :
                LET closure == mailbox[multi_impl][i]
                    box     == mailbox[multi_impl]
                IN  /\ closure.id \in Created
                    /\ closure.op = "create" =>
                          /\ \A other \in MultiImpls : closure.id \notin tds_[other]
                          /\ \A other \in MultiImpls \ {multi_impl} :
                                Pending(mailbox[other], "create", closure.id) = {}
                          /\ Pending(box, "create", closure.id) = {i}
                    /\ closure.op = "send" =>
                          /\ \/ closure.id \in tds_[multi_impl]
                             \/ \E j \in Pending(box, "create", closure.id) : j < i
                          /\ \A j \in Pending(box, "close", closure.id) : i < j)
  /\ [][\A multi_impl \in MultiImpls :
          MultiTdRun(multi_impl) =>
            LET closure == Head(mailbox[multi_impl])
            IN  /\ fatal' = ""
                /\ closure.op = "create" =>
                      /\ closure.id \notin tds_[multi_impl]
                      /\ tds_'[multi_impl] = tds_[multi_impl] \cup {closure.id}
                /\ closure.op = "send" =>
                      /\ closure.id \in tds_[multi_impl]
                      /\ tds_' = tds_]_vars

\* The worker has run the create closure of a client and a send closure of
\* it, whose request waits at the Td, and the next closure of that MultiTd
\* is another send, sent for the same client.
C25_Witness ==
  /\ fatal = ""
  /\ phase = "live"
  /\ \E client_id \in DOMAIN impls_ :
       LET multi_impl == impls_[client_id]
       IN  /\ client_id \in tds_[multi_impl]
           /\ inbox[client_id] # <<>>
           /\ mailbox[multi_impl] # <<>>
           /\ Head(mailbox[multi_impl]).op = "send"
           /\ Head(mailbox[multi_impl]).id = client_id

(***************************************************************************)
(* The receive lock, under SpecReceive.                                    *)
(***************************************************************************)
\* C23: at most one thread is ever inside receive_unlocked, and the lock is
\* held while one is; a receive that starts while another is in progress
\* fails CHECK(!is_locked), one that starts with no other in progress gets
\* in; when a receive returns, the lock is free again and no thread is
\* inside, and CHECK(is_locked) never fails.
C23_SingleReader ==
  /\ [](Cardinality(receiving) <= 1)
  /\ [](receiving # {} => receive_lock_)
  /\ [](fatal # "CHECK(is_locked)")
  /\ [][(call'[1] = "receive" /\ call' # call)
          => IF receiving # {}
             THEN fatal' = "CHECK(!is_locked)" /\ receiving' = receiving
             ELSE fatal' = "" /\ receiving' = {call'[2]}]_vars
  /\ [][(call'[1] = "receive returns" /\ call' # call)
          => /\ ~receive_lock_'
             /\ receiving' = {}
             /\ fatal' = ""]_vars

\* A receive has returned a response, a later one is in progress and the one
\* another thread started meanwhile has failed the CHECK.
C23_Witness ==
  /\ fatal = "CHECK(!is_locked)"
  /\ call[1] = "receive"
  /\ receiving # {}
  /\ call[2] \notin receiving
  /\ received # <<>>

(***************************************************************************)
(* Termination, under SpecTermination.                                     *)
(***************************************************************************)
\* A close of the client was asked for: by ~Impl, by a close request on its
\* way to the session, or the session is closing or has stopped.
Closed(client_id) ==
  \/ session[client_id] \in {"closing", "destroyed"}
  \/ /\ session[client_id] = "open"
     /\ \E i \in DOMAIN inbox[client_id] : inbox[client_id][i].function = "close"
  \/ /\ session[client_id] \in {"none", "open"}
     /\ \E multi_impl \in MultiImpls : \E i \in DOMAIN mailbox[multi_impl] :
          /\ mailbox[multi_impl][i].id = client_id
          /\ \/ mailbox[multi_impl][i].op = "close"
             \/ mailbox[multi_impl][i].op = "send" /\ mailbox[multi_impl][i].function = "close"

\* Every client created so far has had its sentinel returned by receive.
AllSentinelsReceived ==
  \A client_id \in ClientIds :
    client_id < current_id => Sentinel(client_id) \in Range(received)

\* C11: with the scheduler threads running and the caller polling, once a
\* client is closed receive eventually returns its sentinel; the destructor
\* of the ClientManager and the destructor of the Client end; and when
\* either has ended, the sentinel of every client created was received.
C11_Termination ==
  /\ \A client_id \in ClientIds :
       Closed(client_id) ~> (Sentinel(client_id) \in Range(received))
  /\ (phase = "destructing") ~> (phase = "destroyed")
  /\ (phase = "~Client") ~> (phase = "Client destroyed")
  /\ [](phase \in {"destroyed", "Client destroyed"} => AllSentinelsReceived)

(***************************************************************************)
(* The size of the pool, under SpecPoolSize.                               *)
(***************************************************************************)
\* C16 as claimed: the first get gives the pool
\* clamp(hardware_concurrency * 5 / 4, 8, 1000) slots.
C16_AsClaimed ==
  [][(pool_impls_ = <<>> /\ pool_impls_' # <<>>)
       => LET scaled == (call'[2] * 5) \div 4
          IN  Len(pool_impls_') = (IF scaled < 8 THEN 8
                                   ELSE IF scaled > 1000 THEN 1000 ELSE scaled)]_vars

\* C16: the first get gives the pool 10 slots when hardware_concurrency is
\* below 8, 1250 slots when it is above 1000 and hardware_concurrency * 5 / 4
\* slots in between, so never fewer than 10 nor more than 1250; no later get
\* changes the number of slots.
C16_PoolSize ==
  /\ [][(pool_impls_ = <<>> /\ pool_impls_' # <<>>)
          => /\ Len(pool_impls_') = (IF call'[2] < 8 THEN 10
                                     ELSE IF call'[2] > 1000 THEN 1250
                                     ELSE (call'[2] * 5) \div 4)
             /\ Len(pool_impls_') >= 10
             /\ Len(pool_impls_') <= 1250]_vars
  /\ [][pool_impls_ # <<>> => Len(pool_impls_') = Len(pool_impls_)]_vars

\* A pool sized with more than 1000 threads, after a later get.
C16_Witness ==
  /\ Len(pool_impls_) = 1250
  /\ current_id >= 3

=============================================================================
